---------------------------- MODULE Spec2Model ----------------------------
(***************************************************************************)
(* Model of demo_data.py: the schema registry, validate_table, the          *)
(* seventeen entity generators, generate_demo_data and the session store    *)
(* of the Streamlit page (Generate, Upload, Save, Clear, Reset, Export).    *)
(*                                                                          *)
(* Conventions.                                                             *)
(*  - A DataFrame is [cols |-> set of column names, rows |-> sequence of    *)
(*    records whose fields are exactly cols].  pd.DataFrame([]) is          *)
(*    [cols |-> {}, rows |-> <<>>].                                         *)
(*  - A cell is [k |-> kind, v |-> payload]; kinds are "str", "int",        *)
(*    "float", "bool", "date", "datetime", "time" and "null" (NaN/NaT).     *)
(*    Floats are fixed point, in hundredths.  A string payload is a tuple   *)
(*    whose first element is its text or prefix: f"EMP-{n:04d}" is          *)
(*    <<"EMP", n>>, the text "abc" is <<"abc">>.                            *)
(*  - The module `random` is one PRNG state rng; every random.* call        *)
(*    advances it by one step and derives its value from the new state.     *)
(*  - Only the columns the properties read are kept in each table; the      *)
(*    draws of the columns left out are still consumed (RandSkip).          *)
(***************************************************************************)
EXTENDS Integers, Sequences, FiniteSets, TLC

\* ------------------------------------------------------------------ bounds
\* Seeds the user may type into the seed box: 0..MaxSeed, and FurtherSeed.
MaxSeed == 3
\* A further seed, the first whose run has both a completed batch that yields
\* more than was planned and an item whose issues add up to more than its
\* stock.
FurtherSeed == 46
\* Rows of a table handed to validate_table on its own: 0..MaxRows.
MaxRows == 2
\* Loop counts of the generators, scaled down from the source's literals:
\* range(50) B2C customers, range(100) batches, randint(1, 5) issues per item,
\* range(20) transfers, range(500) sales, range(200) orders, range(30) days of
\* attendance, range(100) expenses, range(30) days of traffic with
\* randint(50, 200) sessions of randint(1, 10) page views, range(90) days of
\* logs with randint(10, 50) entries.
NumB2C == 2
NumBatches == 2
MaxIssuesPerItem == 2
NumTransfers == 1
NumSales == 2
NumOrders == 1
NumAttendanceDays == 3
NumExpenses == 1
NumTrafficDays == 1
MaxSessionsPerDay == 2
MaxPageViews == 2
NumLogDays == 1
MaxLogsPerDay == 2

\* ------------------------------------------------------------- random source
RANDOM_SEED == 42
RandMod == 32749
RandMul == 75
RandInc == 74
SeedMul == 15874

\* random.seed(s): the state is a function of the seed alone.
SeedState(s) == (s * SeedMul + 1) % RandMod

\* One call of the generator.
RandStep(r) == (RandMul * r + RandInc) % RandMod

\* n calls in one: the map r |-> (a * r + c) % RandMod that n calls compose to.
RECURSIVE RandJump(_)
RandJump(n) ==
  IF n <= 0 THEN [a |-> 1, c |-> 0]
  ELSE IF n % 2 = 1
       THEN LET j == RandJump(n - 1)
            IN  [a |-> (RandMul * j.a) % RandMod, c |-> (RandMul * j.c + RandInc) % RandMod]
       ELSE LET j == RandJump(n \div 2)
            IN  [a |-> (j.a * j.a) % RandMod, c |-> (j.c * (j.a + 1)) % RandMod]

\* n calls whose values the model does not keep.
RandSkip(r, n) == LET j == RandJump(n) IN (j.a * r + j.c) % RandMod

\* random.randint(a, b) read from state r.
RandInt(r, a, b) == a + (r % (b - a + 1))

\* random.choice(seq) read from state r (seq not empty).
Choice(r, seq) == seq[1 + (r % Len(seq))]

\* random.uniform(lo, hi) read from state r, lo and hi already scaled.
Uniform(r, lo, hi) == lo + (r % (hi - lo + 1))

\* random.random() < p / 100.
RandomBelow(r, p) == r * 100 < p * RandMod

\* random.random() > p / 100.
RandomAbove(r, p) == r * 100 > p * RandMod

\* -------------------------------------------------------------------- cells
CStr(p) == [k |-> "str", v |-> p]
CInt(n) == [k |-> "int", v |-> n]
CFlt(n) == [k |-> "float", v |-> n]
CBool(b) == [k |-> "bool", v |-> b]
CDate(y, m, d) == [k |-> "date", v |-> <<y, m, d>>]
CDateTime(y, m, d, h, mi) == [k |-> "datetime", v |-> <<y, m, d, h, mi>>]
CTime(h, mi) == [k |-> "time", v |-> <<h, mi>>]
Null == [k |-> "null", v |-> 0]

\* A literal text, and a formatted identifier f"{prefix}-{n:04d}".
Txt(s) == CStr(<<s>>)
Id(prefix, n) == CStr(<<prefix, n>>)

\* pd.DataFrame(list of dicts): the columns are the keys of the dicts.
DataFrame(cols, rows) == [cols |-> IF rows = <<>> THEN {} ELSE cols, rows |-> rows]

EmptyFrame == [cols |-> {}, rows |-> <<>>]


\* ------------------------------------------------------------------ schemas
Col(c, t) == [col |-> c, type |-> t]

\* SCHEMAS[name]["required"], in declaration order, for the columns kept.
SCHEMAS ==
  [ dim_formulations |->
      << Col("formulation_id", "str"), Col("product_name", "str"),
         Col("product_category", "str"), Col("status", "str"),
         Col("expected_yield_percentage", "float"),
         Col("production_cost_per_unit", "float") >>,
    fact_production_batches |->
      << Col("batch_id", "str"), Col("formulation_id", "str"),
         Col("production_date", "date"), Col("planned_quantity", "int"),
         Col("actual_quantity", "int"), Col("yield_percentage", "float"),
         Col("status", "str"), Col("supervisor_id", "str") >>,
    dim_raw_materials |->
      << Col("material_id", "str"), Col("category", "str"),
         Col("current_stock", "int") >>,
    fact_inventory_transactions |->
      << Col("transaction_id", "str"), Col("transaction_date", "date"),
         Col("transaction_type", "str"), Col("sku", "str"),
         Col("batch_id", "str"), Col("quantity", "int"),
         Col("employee_id", "str") >>,
    dim_inventory_items |->
      << Col("sku", "str"), Col("item_name", "str"), Col("category", "str"),
         Col("current_stock", "int"), Col("average_unit_cost", "float"),
         Col("total_value", "float") >>,
    fact_sales_transactions |->
      << Col("transaction_id", "str"), Col("transaction_date", "datetime"),
         Col("customer_id", "str"), Col("sku", "str"), Col("quantity", "int"),
         Col("total_amount", "float"), Col("discount_amount", "float"),
         Col("tax_amount", "float"), Col("net_amount", "float"),
         Col("payment_status", "str"), Col("employee_id", "str") >>,
    dim_customers |->
      << Col("customer_id", "str"), Col("customer_type", "str") >>,
    dim_employees |->
      << Col("employee_id", "str"), Col("department", "str"),
         Col("position", "str"), Col("supervisor_id", "str"),
         Col("shift_pattern", "str"), Col("active", "bool") >>,
    fact_attendance |->
      << Col("attendance_id", "str"), Col("employee_id", "str"),
         Col("date", "date"), Col("shift_start", "time"),
         Col("shift_end", "time"), Col("hours_worked", "float"),
         Col("overtime_hours", "float") >>,
    fact_financial_transactions |->
      << Col("transaction_id", "str"), Col("transaction_type", "str"),
         Col("account_code", "str"), Col("debit_amount", "float"),
         Col("credit_amount", "float"), Col("reference_number", "str") >>,
    dim_accounts |->
      << Col("account_code", "str"), Col("account_name", "str"),
         Col("account_type", "str"), Col("is_active", "bool") >>,
    fact_ecommerce_orders |->
      << Col("order_id", "str"), Col("order_date", "datetime"),
         Col("customer_id", "str") >>,
    fact_website_traffic |->
      << Col("session_id", "str"), Col("page_views", "int"),
         Col("converted", "bool"), Col("customer_id", "str") >>,
    fact_production_analytics |->
      << Col("analytics_id", "str"), Col("batch_id", "str"),
         Col("yield_rate", "float"), Col("scrap_percentage", "float") >>,
    fact_inventory_analytics |->
      << Col("analytics_id", "str"), Col("date", "date"), Col("sku", "str"),
         Col("stock_turnover_rate", "float"),
         Col("days_inventory_outstanding", "float") >>,
    dim_tenants |->
      << Col("tenant_id", "str"), Col("max_users", "int"),
         Col("monthly_fee", "float") >>,
    fact_audit_logs |->
      << Col("log_id", "str"), Col("tenant_id", "str"), Col("user_id", "str"),
         Col("user_role", "str"), Col("module", "str"), Col("action", "str") >> ]

TableNames == DOMAIN SCHEMAS

RequiredCols(name) == {SCHEMAS[name][i].col : i \in 1..Len(SCHEMAS[name])}

\* ------------------------------------------------------------- validate_table
Fail == [k |-> "fail", v |-> 0]

\* The text of a string cell reads as a date (pd.to_datetime accepts it).
IsDateText(p) == p[1] = "#date" \/ p[1] = "#datetime"

\* The text of a string cell reads as a missing value.
IsNaText(p) == p[1] = "nan" \/ p[1] = ""

\* Truncation toward zero of a fixed-point value (astype(int)).
TruncToInt(h) == IF h >= 0 THEN h \div 100 ELSE -((-h) \div 100)

\* pd.to_datetime(col).dt.date on one cell.
ToDate(c) ==
  CASE c.k = "date" -> c
    [] c.k = "datetime" -> CDate(c.v[1], c.v[2], c.v[3])
    [] c.k = "null" -> Null
    [] c.k = "int" \/ c.k = "float" -> CDate(1970, 1, 1)
    [] c.k = "str" ->
         IF IsDateText(c.v) THEN CDate(c.v[2][1], c.v[2][2], c.v[2][3])
         ELSE IF IsNaText(c.v) THEN Null ELSE Fail
    [] OTHER -> Fail

\* pd.to_datetime(col) on one cell.
ToDateTime(c) ==
  CASE c.k = "datetime" -> c
    [] c.k = "date" -> CDateTime(c.v[1], c.v[2], c.v[3], 0, 0)
    [] c.k = "null" -> Null
    [] c.k = "int" \/ c.k = "float" -> CDateTime(1970, 1, 1, 0, 0)
    [] c.k = "str" ->
         IF c.v[1] = "#datetime"
         THEN CDateTime(c.v[2][1], c.v[2][2], c.v[2][3], c.v[2][4], c.v[2][5])
         ELSE IF c.v[1] = "#date"
         THEN CDateTime(c.v[2][1], c.v[2][2], c.v[2][3], 0, 0)
         ELSE IF IsNaText(c.v) THEN Null ELSE Fail
    [] OTHER -> Fail

\* col.astype(bool) on one cell.
ToBool(c) ==
  CASE c.k = "bool" -> c
    [] c.k = "int" \/ c.k = "float" -> CBool(c.v # 0)
    [] c.k = "str" -> CBool(c.v[1] # "")
    [] OTHER -> CBool(TRUE)

\* pd.to_numeric(col, errors='coerce') on one cell: a number cell, or Null.
ToNumeric(c) ==
  CASE c.k = "int" \/ c.k = "float" -> c
    [] c.k = "bool" -> CInt(IF c.v THEN 1 ELSE 0)
    [] c.k = "str" ->
         IF c.v[1] = "#int" THEN CInt(c.v[2])
         ELSE IF c.v[1] = "#float" THEN CFlt(c.v[2]) ELSE Null
    [] OTHER -> Null

\* The int conversion without fillna(0).
ToIntUnfilled(c) == ToNumeric(c)

\* pd.to_numeric(...).fillna(0).astype(int) on one cell.
ToInt(c) ==
  LET n == ToNumeric(c)
  IN  CASE n.k = "null" -> CInt(0)
        [] n.k = "float" -> CInt(TruncToInt(n.v))
        [] OTHER -> n

\* pd.to_numeric(...).fillna(0.0).astype(float) on one cell.
ToFloat(c) ==
  LET n == ToNumeric(c)
  IN  CASE n.k = "null" -> CFlt(0)
        [] n.k = "int" -> CFlt(n.v * 100)
        [] OTHER -> n

\* col.astype(str) on one cell.
ToStr(c) ==
  CASE c.k = "str" -> c
    [] c.k = "int" -> CStr(<<"#int", c.v>>)
    [] c.k = "float" -> CStr(<<"#float", c.v>>)
    [] c.k = "bool" -> Txt(IF c.v THEN "True" ELSE "False")
    [] c.k = "null" -> Txt("nan")
    [] c.k = "date" -> CStr(<<"#date", c.v>>)
    [] c.k = "datetime" -> CStr(<<"#datetime", c.v>>)
    [] OTHER -> CStr(<<"#time", c.v>>)

\* The branch of the type dispatch taken for expected_type.
CoerceCell(type, c) ==
  CASE type = "date" -> ToDate(c)
    [] type = "datetime" -> ToDateTime(c)
    [] type = "bool" -> ToBool(c)
    [] type = "int" -> ToInt(c)
    [] type = "float" -> ToFloat(c)
    [] OTHER -> ToStr(c)

ColumnFails(df, col, type) ==
  \E i \in 1..Len(df.rows) : CoerceCell(type, df.rows[i][col]).k = "fail"

\* The assignment dropped: the column stays as it was given.
SetColumnDropped(df, col, type) == df

\* df[col] = <converted column>.
SetColumn(df, col, type) ==
  [df EXCEPT !.rows =
     [i \in 1..Len(df.rows) |->
        [df.rows[i] EXCEPT ![col] = CoerceCell(type, df.rows[i][col])]]]

\* The type loop from schema entry i on: the frame and the errors so far.
RECURSIVE CoerceFrom(_, _, _, _)
CoerceFrom(schema, i, df, errors) ==
  IF i > Len(schema) THEN [df |-> df, errors |-> errors]
  ELSE LET col == schema[i].col
           type == schema[i].type
       IN  IF col \notin df.cols THEN CoerceFrom(schema, i + 1, df, errors)
           ELSE IF ColumnFails(df, col, type)
           THEN CoerceFrom(schema, i + 1, df,
                           Append(errors, <<"Type conversion failed", col>>))
           ELSE CoerceFrom(schema, i + 1, SetColumn(df, col, type), errors)

NullCount(df, col) == Cardinality({i \in 1..Len(df.rows) : df.rows[i][col].k = "null"})

\* The null loop from schema entry i on.
RECURSIVE NullWarningsFrom(_, _, _, _)
NullWarningsFrom(schema, i, df, warnings) ==
  IF i > Len(schema) THEN warnings
  ELSE LET col == schema[i].col
       IN  IF col \in df.cols /\ NullCount(df, col) > 0
           THEN NullWarningsFrom(schema, i + 1, df,
                  Append(warnings, <<"Null values", col, NullCount(df, col)>>))
           ELSE NullWarningsFrom(schema, i + 1, df, warnings)

\* The null check placed ahead of the coercion.
NullCheckBeforeCoercion(before, after) == before

\* Where the null check sits: after the coercion.
NullCheckFrame(before, after) == after

\* Where a null in a required column is reported.
NullFindings(schema, df) == NullWarningsFrom(schema, 1, df, <<>>)

\* An unknown-table report that repeats its finding as a warning.
UnknownTableReportWarned ==
  [errors |-> << <<"Unknown table">> >>, warnings |-> << <<"Unknown table">> >>, ok |-> FALSE]

UnknownTableReport == [errors |-> << <<"Unknown table">> >>, warnings |-> <<>>, ok |-> FALSE]

\* A report that warnings fail as well.
ReportOkStrict(errors, warnings) == Len(errors) = 0 /\ Len(warnings) = 0

\* "ok": len(errors) == 0
ReportOk(errors, warnings) == Len(errors) = 0

validate_known(table_name, df) ==
  LET schema == SCHEMAS[table_name]
      required_cols == RequiredCols(table_name)
      missing_cols == required_cols \ df.cols
      extra_cols == df.cols \ required_cols
      errors0 == IF missing_cols # {} THEN << <<"Missing columns", missing_cols>> >>
                 ELSE <<>>
      warnings0 == IF extra_cols # {} THEN << <<"Extra columns", extra_cols>> >>
                   ELSE <<>>
      typed == CoerceFrom(schema, 1, df, errors0)
      warnings == warnings0 \o NullFindings(schema, NullCheckFrame(df, typed.df))
  IN  [df |-> typed.df,
       report |-> [row_count |-> Len(typed.df.rows),
                   errors |-> typed.errors,
                   warnings |-> warnings,
                   ok |-> ReportOk(typed.errors, warnings)]]

\* The lookup of table_name in SCHEMAS.
IsKnownTable(table_name) == table_name \in TableNames

validate_table(table_name, df) ==
  IF ~IsKnownTable(table_name) THEN [df |-> df, report |-> UnknownTableReport]
  ELSE validate_known(table_name, df)


\* ------------------------------------------------------------------ helpers
\* Half-up rounding of num / den, both positive (round(x, n) on the scaled value).
RoundDiv(num, den) == (num + (den \div 2)) \div den

\* The smaller of the two taken to be the second, whatever the first.
MinIgnoringCap(a, b) == b

Min(a, b) == IF a < b THEN a ELSE b
Max(a, b) == IF a > b THEN a ELSE b

Row(df, i) == df.rows[i]

\* df[df[col] == value].to_dict('records')
Where(df, col, cell) == SelectSeq(df.rows, LAMBDA row : row[col] = cell)

\* df[col].tolist()
RECURSIVE ColumnOf(_, _)
ColumnOf(rows, col) ==
  IF rows = <<>> THEN <<>> ELSE <<Head(rows)[col]>> \o ColumnOf(Tail(rows), col)

\* What a generator hands back: its table and the state of the random source,
\* or the exception it raised.
Produced(df, r) == [ok |-> TRUE, df |-> df, rng |-> r]
Raised(r) == [ok |-> FALSE, df |-> EmptyFrame, rng |-> r]

\* -------------------------------------------------- generate_tenants_data
TenantRow(id, users, fee) ==
  [tenant_id |-> Txt(id), max_users |-> CInt(users), monthly_fee |-> CFlt(fee)]

generate_tenants_data(r) ==
  Produced(DataFrame({"tenant_id", "max_users", "monthly_fee"},
                     << TenantRow("cinta_beauty", 50, 25000000),
                        TenantRow("virtual_analytics", 20, 15000000),
                        TenantRow("sme_demo_01", 10, 7500000) >>), r)

\* ------------------------------------------------ generate_employees_data
\* departments.items() flattened, six of the twenty-six positions.
EmployeePositions ==
  << <<"Production", "Production Manager">>,
     <<"Production", "Production Worker">>,
     <<"Quality Control", "QC Manager">>,
     <<"Sales & Marketing", "Sales Manager">>,
     <<"Finance & Admin", "Accountant">>,
     <<"Supply Chain", "Inventory Controller">> >>

EmployeeCols ==
  {"employee_id", "department", "position", "supervisor_id", "shift_pattern", "active"}

\* Draws of one employee: first_name, last_name, hire_date (3), salary,
\* phone (2), employment_type, supervisor_id (only when employee_id > 5),
\* shift_pattern, active.
EmployeeDraws(employee_id) == IF employee_id > 5 THEN 12 ELSE 11

EmployeeRow(employee_id, r) ==
  LET n == EmployeeDraws(employee_id)
  IN  [employee_id |-> Id("EMP", employee_id),
       department |-> Txt(EmployeePositions[employee_id][1]),
       position |-> Txt(EmployeePositions[employee_id][2]),
       supervisor_id |-> IF employee_id > 5
                         THEN Id("EMP", RandInt(RandSkip(r, 10), 1, 5))
                         ELSE Txt(""),
       shift_pattern |-> Txt(Choice(RandSkip(r, n - 1),
                                    <<"Morning", "Evening", "Night", "Flexible">>)),
       active |-> CBool(Choice(RandSkip(r, n), <<TRUE, TRUE, TRUE, FALSE>>))]

RECURSIVE EmployeeLoop(_, _, _)
EmployeeLoop(employee_id, r, rows) ==
  IF employee_id > Len(EmployeePositions) THEN Produced(DataFrame(EmployeeCols, rows), r)
  ELSE EmployeeLoop(employee_id + 1, RandSkip(r, EmployeeDraws(employee_id)),
                    Append(rows, EmployeeRow(employee_id, r)))

generate_employees_data(r) == EmployeeLoop(1, r, <<>>)

\* --------------------------------------------- generate_formulations_data
\* product_categories.items() flattened, three of the thirty-two products.
Products ==
  << <<"Skincare", "Vitamin C Serum">>,
     <<"Skincare", "Retinol Night Cream">>,
     <<"Haircare", "Hair Mask">> >>

FormulationCols ==
  {"formulation_id", "product_name", "product_category", "status",
   "expected_yield_percentage", "production_cost_per_unit"}

\* The weighted status list of a formulation.
FormulationStatuses == <<"Active", "Active", "Active", "Archived">>

\* Draws of one formulation: version (2), status, created_date (2),
\* expected_yield_percentage, production_cost_per_unit,
\* target_cycle_time_hours, quality_standards.
FormulationRow(formulation_id, r) ==
  [formulation_id |-> Id("FMT", formulation_id),
   product_name |-> Txt(Products[formulation_id][2]),
   product_category |-> Txt(Products[formulation_id][1]),
   status |-> Txt(Choice(RandSkip(r, 3), FormulationStatuses)),
   expected_yield_percentage |-> CFlt(Uniform(RandSkip(r, 6), 8500, 9800)),
   production_cost_per_unit |-> CFlt(Uniform(RandSkip(r, 7), 15000, 500000))]

RECURSIVE FormulationLoop(_, _, _)
FormulationLoop(formulation_id, r, rows) ==
  IF formulation_id > Len(Products) THEN Produced(DataFrame(FormulationCols, rows), r)
  ELSE FormulationLoop(formulation_id + 1, RandSkip(r, 9),
                       Append(rows, FormulationRow(formulation_id, r)))

generate_formulations_data(r) == FormulationLoop(1, r, <<>>)

\* -------------------------------------------- generate_raw_materials_data
\* categories.items() flattened, two of the forty-two materials.
Materials ==
  << <<"Active Ingredients", "Retinol">>, <<"Base Oils", "Argan Oil">> >>

\* Draws of one material: unit_cost, supplier_id, unit_of_measure,
\* min_stock_level, current_stock, shelf_life_days, storage_requirements.
MaterialRow(material_id, r) ==
  [material_id |-> Id("MAT", material_id),
   category |-> Txt(Materials[material_id][1]),
   current_stock |-> CInt(RandInt(RandSkip(r, 5), 50, 500))]

RECURSIVE MaterialLoop(_, _, _)
MaterialLoop(material_id, r, rows) ==
  IF material_id > Len(Materials)
  THEN Produced(DataFrame({"material_id", "category", "current_stock"}, rows), r)
  ELSE MaterialLoop(material_id + 1, RandSkip(r, 7),
                    Append(rows, MaterialRow(material_id, r)))

generate_raw_materials_data(r) == MaterialLoop(1, r, <<>>)

\* ------------------------------------------------ generate_customers_data
\* Two of the twelve b2b_names.
B2BNames == <<"Nairobi Beauty Mart", "Coast Cosmetics Distributors">>

CustomerRow(prefix, customer_id, type) ==
  [customer_id |-> Id(prefix, customer_id), customer_type |-> Txt(type)]

\* A B2B customer draws city, phone (2), address (2), customer_since (3),
\* loyalty_points, total_purchases, last_purchase_date (2): 12 values.
RECURSIVE B2BLoop(_, _, _)
B2BLoop(customer_id, r, rows) ==
  IF customer_id > Len(B2BNames) THEN [rows |-> rows, rng |-> r]
  ELSE B2BLoop(customer_id + 1, RandSkip(r, 12),
               Append(rows, CustomerRow("B2B", customer_id, "Business")))

\* A B2C customer draws first and last name as well: 14 values.
RECURSIVE B2CLoop(_, _, _, _)
B2CLoop(i, customer_id, r, rows) ==
  IF i >= NumB2C THEN [rows |-> rows, rng |-> r]
  ELSE B2CLoop(i + 1, customer_id + 1, RandSkip(r, 14),
               Append(rows, CustomerRow("B2C", customer_id, "Individual")))

generate_customers_data(r) ==
  LET b2b == B2BLoop(1, r, <<>>)
      all == B2CLoop(0, Len(B2BNames) + 1, b2b.rng, b2b.rows)
  IN  Produced(DataFrame({"customer_id", "customer_type"}, all.rows), all.rng)


\* --------------------------------------------- generate_production_batches
BatchCols ==
  {"batch_id", "formulation_id", "production_date", "planned_quantity",
   "actual_quantity", "yield_percentage", "status", "supervisor_id"}

\* The weighted status list of a batch.
BatchStatuses == <<"Completed", "Completed", "Completed", "In Progress", "Quality Hold">>

\* Every formulation eligible, whatever its status.
EligibleFormulationsOfAnyStatus(formulations_df) == formulations_df.rows

\* formulations_df[formulations_df['status'] == 'Active'].to_dict('records')
EligibleFormulations(formulations_df) == Where(formulations_df, "status", Txt("Active"))

\* employees_df[employees_df['department'] == 'Production']['employee_id'].tolist()
ProductionStaff(employees_df) ==
  ColumnOf(Where(employees_df, "department", Txt("Production")), "employee_id")

\* int(planned_qty * (expected_yield_percentage / 100) * uniform(0.9, 1.1)),
\* the yield in hundredths of a percent and the noise in hundredths.
ActualQuantity(planned_qty, yield, noise) == (planned_qty * yield * noise) \div 1000000

\* The yield rounded to a whole percent.
YieldPctWhole(actual_qty, planned_qty) == RoundDiv(actual_qty * 100, planned_qty) * 100

\* round((actual_qty / planned_qty) * 100, 2), in hundredths.
YieldPct(actual_qty, planned_qty) == RoundDiv(actual_qty * 10000, planned_qty)

\* Draws of one batch: formulation, production_date (2), planned_qty, yield
\* noise, status, cost noise, quality noise, equipment_id, supervisor_id,
\* completion_time_hours.
BatchRow(batch_id, formulations, production_staff, r) ==
  LET formulation == Choice(RandSkip(r, 1), formulations)
      planned_qty == RandInt(RandSkip(r, 4), 100, 1000)
      actual_qty == ActualQuantity(planned_qty, formulation.expected_yield_percentage.v,
                                   Uniform(RandSkip(r, 5), 90, 110))
  IN  [batch_id |-> Id("BATCH", batch_id),
       formulation_id |-> formulation.formulation_id,
       production_date |-> CDate(2024, RandInt(RandSkip(r, 2), 1, 12),
                                 RandInt(RandSkip(r, 3), 1, 28)),
       planned_quantity |-> CInt(planned_qty),
       actual_quantity |-> CInt(actual_qty),
       yield_percentage |-> CFlt(YieldPct(actual_qty, planned_qty)),
       status |-> Txt(Choice(RandSkip(r, 6), BatchStatuses)),
       supervisor_id |-> Choice(RandSkip(r, 10), production_staff)]

RECURSIVE BatchLoop(_, _, _, _, _)
BatchLoop(batch_id, formulations, production_staff, r, rows) ==
  IF batch_id > NumBatches THEN Produced(DataFrame(BatchCols, rows), r)
  ELSE IF formulations = <<>> THEN Raised(r)
  ELSE BatchLoop(batch_id + 1, formulations, production_staff, RandSkip(r, 11),
                 Append(rows, BatchRow(batch_id, formulations, production_staff, r)))

generate_production_batches(formulations_df, employees_df, r) ==
  BatchLoop(1, EligibleFormulations(formulations_df), ProductionStaff(employees_df),
            r, <<>>)

\* ------------------------------------------------ generate_inventory_items
ItemCols ==
  {"sku", "item_name", "category", "current_stock", "average_unit_cost", "total_value"}

\* ''.join(word[:3].upper() for word in product_name.split())
SkuBase(product_name) ==
  CASE product_name = <<"Vitamin C Serum">> -> "VITCSER"
    [] product_name = <<"Retinol Night Cream">> -> "RETNIGCRE"
    [] product_name = <<"Hair Mask">> -> "HAIMAS"
    [] OTHER -> "?"

\* category[:3].upper()
CategoryCode(category) ==
  CASE category = <<"Skincare">> -> "SKI"
    [] category = <<"Haircare">> -> "HAI"
    [] OTHER -> "?"

RECURSIVE SumQuantity(_, _)
SumQuantity(rows, col) ==
  IF rows = <<>> THEN 0 ELSE Head(rows)[col].v + SumQuantity(Tail(rows), col)

\* The stock taken as all that was produced.
CurrentStockUnsold(total_produced, fraction) == total_produced

\* int(total_produced * uniform(0.1, 0.7)), the fraction in hundredths.
CurrentStock(total_produced, fraction) == (total_produced * fraction) \div 100

\* Draws of one item: sku number, stock fraction, unit_of_measure,
\* min_stock_level, max_stock_level, last_restock_date (2), expiry_date (3),
\* storage_location.
ItemRow(formulation, batches_df, r) ==
  LET total_produced ==
        SumQuantity(Where(batches_df, "formulation_id", formulation.formulation_id),
                    "actual_quantity")
      unit_cost == formulation.production_cost_per_unit.v
      current_stock == CurrentStock(total_produced, Uniform(RandSkip(r, 2), 10, 70))
  IN  [sku |-> CStr(<<SkuBase(formulation.product_name.v),
                      CategoryCode(formulation.product_category.v),
                      RandInt(RandSkip(r, 1), 100, 999)>>),
       item_name |-> formulation.product_name,
       category |-> formulation.product_category,
       current_stock |-> CInt(current_stock),
       average_unit_cost |-> CFlt(unit_cost),
       total_value |-> CFlt(current_stock * unit_cost)]

RECURSIVE ItemLoop(_, _, _, _, _)
ItemLoop(i, formulations_df, batches_df, r, rows) ==
  IF i > Len(formulations_df.rows) THEN Produced(DataFrame(ItemCols, rows), r)
  ELSE ItemLoop(i + 1, formulations_df, batches_df, RandSkip(r, 11),
                Append(rows, ItemRow(Row(formulations_df, i), batches_df, r)))

generate_inventory_items(batches_df, formulations_df, r) ==
  ItemLoop(1, formulations_df, batches_df, r, <<>>)

\* ----------------------------------------- generate_inventory_transactions
InvTxnCols ==
  {"transaction_id", "transaction_date", "transaction_type", "sku", "batch_id",
   "quantity", "employee_id"}

\* employees_df[employees_df['department'].isin(['Supply Chain', 'Production'])]
InventoryStaff(employees_df) ==
  ColumnOf(SelectSeq(employees_df.rows,
                     LAMBDA e : e.department \in {Txt("Supply Chain"), Txt("Production")}),
           "employee_id")

\* The product name of the first formulation, whatever the batch.
ProductOfFirst(formulations_df, formulation_id) ==
  formulations_df.rows[1].product_name

\* formulation_to_product.get(formulation_id, "")
ProductOf(formulations_df, formulation_id) ==
  LET hit == Where(formulations_df, "formulation_id", formulation_id)
  IN  IF hit = <<>> THEN Txt("") ELSE hit[Len(hit)].product_name

\* One pass over batches_df: a receipt per completed batch whose product has
\* an inventory item (one draw, employee_id).
RECURSIVE ReceiptLoop(_, _, _, _, _, _)
ReceiptLoop(i, env, transaction_id, r, rows, staff) ==
  IF i > Len(env.batches.rows)
  THEN [rows |-> rows, rng |-> r, next_id |-> transaction_id]
  ELSE LET batch == Row(env.batches, i)
           product_name == ProductOf(env.formulations, batch.formulation_id)
           inventory_item == Where(env.items, "item_name", product_name)
       IN  IF batch.status = Txt("Completed") /\ product_name # Txt("")
              /\ inventory_item # <<>>
           THEN ReceiptLoop(i + 1, env, transaction_id + 1, RandStep(r),
                  Append(rows,
                    [transaction_id |-> Id("INV", transaction_id),
                     transaction_date |-> batch.production_date,
                     transaction_type |-> Txt("Production Receipt"),
                     sku |-> inventory_item[1].sku,
                     batch_id |-> batch.batch_id,
                     quantity |-> batch.actual_quantity,
                     employee_id |-> Choice(RandStep(r), staff)]), staff)
           ELSE ReceiptLoop(i + 1, env, transaction_id, r, rows, staff)

\* The rows of one item's issues: each draws transaction_date (2), batch_id,
\* reference_document, employee_id.
RECURSIVE IssueRows(_, _, _, _, _, _, _)
IssueRows(j, count, item, sales_qty, transaction_id, r, staff) ==
  IF j > count THEN <<>>
  ELSE << [transaction_id |-> Id("INV", transaction_id),
           transaction_date |-> CDate(2024, RandInt(RandSkip(r, 1), 1, 12),
                                      RandInt(RandSkip(r, 2), 1, 28)),
           transaction_type |-> Txt("Sales Issue"),
           sku |-> item.sku,
           batch_id |-> Id("BATCH", RandInt(RandSkip(r, 3), 1, NumBatches)),
           quantity |-> CInt(-sales_qty),
           employee_id |-> Choice(RandSkip(r, 5), staff)] >>
       \o IssueRows(j + 1, count, item, sales_qty, transaction_id + 1,
                    RandSkip(r, 5), staff)

\* Whether an item gets issues at all.
HasStock(item) == item.current_stock.v > 0

\* One pass over inventory_items_df: sales_qty and the number of issues are
\* drawn once per item with stock.
RECURSIVE IssueLoop(_, _, _, _, _, _)
IssueLoop(i, env, transaction_id, r, rows, staff) ==
  IF i > Len(env.items.rows)
  THEN [rows |-> rows, rng |-> r, next_id |-> transaction_id]
  ELSE LET item == Row(env.items, i)
           sales_qty == RandInt(RandSkip(r, 1), 1, Min(100, item.current_stock.v))
           count == RandInt(RandSkip(r, 2), 1, MaxIssuesPerItem)
       IN  IF HasStock(item)
           THEN IssueLoop(i + 1, env, transaction_id + count,
                          RandSkip(r, 2 + 5 * count),
                          rows \o IssueRows(1, count, item, sales_qty, transaction_id,
                                            RandSkip(r, 2), staff), staff)
           ELSE IssueLoop(i + 1, env, transaction_id, r, rows, staff)

\* A transfer booked under the type of an issue.
TransferTypeOfIssue == Txt("Sales Issue")

\* "transaction_type": "Stock Transfer"
TransferType == Txt("Stock Transfer")

\* Each transfer draws item, transaction_date (2), batch_id, quantity, the
\* quantity of total_value, location_id, reference_document, employee_id.
RECURSIVE TransferLoop(_, _, _, _, _, _)
TransferLoop(i, env, transaction_id, r, rows, staff) ==
  IF i >= NumTransfers THEN [rows |-> rows, rng |-> r, next_id |-> transaction_id]
  ELSE LET item == Choice(RandSkip(r, 1), env.items.rows)
       IN  TransferLoop(i + 1, env, transaction_id + 1, RandSkip(r, 9),
             Append(rows,
               [transaction_id |-> Id("INV", transaction_id),
                transaction_date |-> CDate(2024, RandInt(RandSkip(r, 2), 1, 12),
                                           RandInt(RandSkip(r, 3), 1, 28)),
                transaction_type |-> TransferType,
                sku |-> item.sku,
                batch_id |-> Id("BATCH", RandInt(RandSkip(r, 4), 1, NumBatches)),
                quantity |-> CInt(RandInt(RandSkip(r, 5), 10, 100)),
                employee_id |-> Choice(RandSkip(r, 9), staff)]), staff)

\* The passes with the transfers ahead of the issues.
generate_inventory_transactions_reordered(inventory_items_df, batches_df, employees_df, formulations_df, r) ==
  LET env == [items |-> inventory_items_df, batches |-> batches_df,
              formulations |-> formulations_df]
      staff == InventoryStaff(employees_df)
      receipts == ReceiptLoop(1, env, 1, r, <<>>, staff)
      transfers == TransferLoop(0, env, receipts.next_id, receipts.rng, receipts.rows, staff)
      issues == IssueLoop(1, env, transfers.next_id, transfers.rng, transfers.rows, staff)
  IN  Produced(DataFrame(InvTxnCols, issues.rows), issues.rng)

generate_inventory_transactions(inventory_items_df, batches_df, employees_df, formulations_df, r) ==
  LET env == [items |-> inventory_items_df, batches |-> batches_df,
              formulations |-> formulations_df]
      staff == InventoryStaff(employees_df)
      receipts == ReceiptLoop(1, env, 1, r, <<>>, staff)
      issues == IssueLoop(1, env, receipts.next_id, receipts.rng, receipts.rows, staff)
      transfers == TransferLoop(0, env, issues.next_id, issues.rng, issues.rows, staff)
  IN  Produced(DataFrame(InvTxnCols, transfers.rows), transfers.rng)


\* --------------------------------------------- generate_sales_transactions
SalesCols ==
  {"transaction_id", "transaction_date", "customer_id", "sku", "quantity",
   "total_amount", "discount_amount", "tax_amount", "net_amount",
   "payment_status", "employee_id"}

SalesStaff(employees_df) ==
  ColumnOf(Where(employees_df, "department", Txt("Sales & Marketing")), "employee_id")

\* The weighted payment status list of a sale.
PaymentStatuses == <<"Paid", "Paid", "Paid", "Pending", "Partial">>

\* The amount due with the tax left out.
NetAmountBeforeTax(total_amount, discount_amount, tax_amount) == total_amount - discount_amount

\* round(total_amount - discount_amount + tax_amount, 2), in hundredths.
NetAmount(total_amount, discount_amount, tax_amount) == total_amount - discount_amount + tax_amount

\* Draws of one sale: customer, item, markup, quantity, discount rate,
\* transaction_date (4), payment_method, payment_status, sales_channel,
\* employee_id.  Money is in hundredths, the markup in hundredths, the
\* discount rate in thousandths.
SaleRow(transaction_id, customers, inventory_items, sales_staff, r) ==
  LET customer == Choice(RandSkip(r, 1), customers)
      item == Choice(RandSkip(r, 2), inventory_items)
      unit_price == RoundDiv(item.average_unit_cost.v * Uniform(RandSkip(r, 3), 150, 300), 100)
      quantity == RandInt(RandSkip(r, 4), 1, 20)
      total_amount == unit_price * quantity
      discount_pct == IF customer.customer_type = Txt("Business")
                      THEN Uniform(RandSkip(r, 5), 50, 200)
                      ELSE Uniform(RandSkip(r, 5), 0, 100)
      discount_amount == RoundDiv(total_amount * discount_pct, 1000)
      tax_amount == RoundDiv((total_amount - discount_amount) * 16, 100)
  IN  [transaction_id |-> Id("SALE", transaction_id),
       transaction_date |-> CDateTime(2024, RandInt(RandSkip(r, 6), 1, 12),
                                      RandInt(RandSkip(r, 7), 1, 28),
                                      RandInt(RandSkip(r, 8), 8, 20),
                                      RandInt(RandSkip(r, 9), 0, 59)),
       customer_id |-> customer.customer_id,
       sku |-> item.sku,
       quantity |-> CInt(quantity),
       total_amount |-> CFlt(total_amount),
       discount_amount |-> CFlt(discount_amount),
       tax_amount |-> CFlt(tax_amount),
       net_amount |-> CFlt(NetAmount(total_amount, discount_amount, tax_amount)),
       payment_status |-> Txt(Choice(RandSkip(r, 11), PaymentStatuses)),
       employee_id |-> Choice(RandSkip(r, 13), sales_staff)]

RECURSIVE SaleLoop(_, _, _, _, _, _)
SaleLoop(transaction_id, customers, inventory_items, sales_staff, r, rows) ==
  IF transaction_id > NumSales THEN Produced(DataFrame(SalesCols, rows), r)
  ELSE SaleLoop(transaction_id + 1, customers, inventory_items, sales_staff,
                RandSkip(r, 13),
                Append(rows, SaleRow(transaction_id, customers, inventory_items,
                                     sales_staff, r)))

generate_sales_transactions(inventory_items_df, customers_df, employees_df, r) ==
  SaleLoop(1, customers_df.rows, inventory_items_df.rows, SalesStaff(employees_df),
           r, <<>>)

\* ------------------------------------------------ generate_ecommerce_orders
\* customers_df[customers_df['customer_type'] == 'Individual'].to_dict('records')
EligibleCustomers(customers_df) == Where(customers_df, "customer_type", Txt("Individual"))

\* Draws of one order: customer, order_date (4), subtotal, shipping, discount,
\* payment_status, order_status, shipping_method, tracking_number,
\* website_session_id.
OrderRow(order_id, b2c_customers, r) ==
  [order_id |-> Id("ECOMM", order_id),
   order_date |-> CDateTime(2024, RandInt(RandSkip(r, 2), 1, 12),
                            RandInt(RandSkip(r, 3), 1, 28),
                            RandInt(RandSkip(r, 4), 0, 23),
                            RandInt(RandSkip(r, 5), 0, 59)),
   customer_id |-> Choice(RandSkip(r, 1), b2c_customers).customer_id]

\* A loop that leaves before its first order.
OrderLoopLeft(order_id, b2c_customers, r, rows) ==
  Produced(DataFrame({"order_id", "order_date", "customer_id"}, rows), r)

RECURSIVE OrderLoop(_, _, _, _)
OrderLoop(order_id, b2c_customers, r, rows) ==
  IF order_id > NumOrders
  THEN Produced(DataFrame({"order_id", "order_date", "customer_id"}, rows), r)
  ELSE IF b2c_customers = <<>> THEN Raised(r)
  ELSE OrderLoop(order_id + 1, b2c_customers, RandSkip(r, 13),
                 Append(rows, OrderRow(order_id, b2c_customers, r)))

generate_ecommerce_orders(customers_df, sales_df, r) ==
  OrderLoop(1, EligibleCustomers(customers_df), r, <<>>)

\* ------------------------------------------------- generate_attendance_data
AttendanceCols ==
  {"attendance_id", "employee_id", "date", "shift_start", "shift_end",
   "hours_worked", "overtime_hours"}

\* (date(2024, 6, 1) + timedelta(days=day_offset)).weekday(); 1 June 2024 is
\* a Saturday (weekday 5).
Weekday(day_offset) == (5 + day_offset) % 7

\* A schedule of ten hours for every pattern.
ShiftOfTenHours(shift_pattern) == [start |-> 480, end |-> 1080]

\* The scheduled shift of a pattern, as minutes after midnight.
ShiftOf(shift_pattern) ==
  CASE shift_pattern = Txt("Morning") -> [start |-> 480, end |-> 1020]
    [] shift_pattern = Txt("Evening") -> [start |-> 840, end |-> 1380]
    [] OTHER -> [start |-> 480, end |-> 1020]

\* One (day, employee) visit.  A weekend visit draws random() and is skipped
\* when it exceeds 0.1.  A kept visit draws random() for lateness (and the
\* minutes when it exceeds 0.8), random() for early leave (and the minutes
\* when it exceeds 0.9), attendance_status and remarks.
AttendanceVisit(day_offset, employee, attendance_id, r) ==
  LET weekend == Weekday(day_offset) >= 5
      r0 == IF weekend THEN RandStep(r) ELSE r
      skipped == weekend /\ RandomAbove(r0, 10)
      r1 == RandStep(r0)
      late == RandomAbove(r1, 80)
      r2 == IF late THEN RandStep(r1) ELSE r1
      late_minutes == IF late THEN RandInt(r2, 0, 30) ELSE 0
      r3 == RandStep(r2)
      early == RandomAbove(r3, 90)
      r4 == IF early THEN RandStep(r3) ELSE r3
      early_leave == IF early THEN RandInt(r4, 0, 60) ELSE 0
      shift == ShiftOf(employee.shift_pattern)
      minutes == (shift.end - early_leave) - (shift.start + late_minutes)
      hours_worked == RoundDiv(minutes * 100, 60)
  IN  IF skipped THEN [rows |-> <<>>, rng |-> r0]
      ELSE [rows |-> << [attendance_id |-> Id("ATT", attendance_id),
                         employee_id |-> employee.employee_id,
                         date |-> CDate(2024, 6, 1 + day_offset),
                         shift_start |-> CTime(shift.start \div 60, shift.start % 60),
                         shift_end |-> CTime(shift.end \div 60, shift.end % 60),
                         hours_worked |-> CFlt(hours_worked),
                         overtime_hours |-> CFlt(Max(0, hours_worked - 900))] >>,
            rng |-> RandSkip(r4, 2)]

RECURSIVE AttendanceLoop(_, _, _, _, _, _)
AttendanceLoop(day_offset, e, active_employees, attendance_id, r, rows) ==
  IF day_offset >= NumAttendanceDays THEN Produced(DataFrame(AttendanceCols, rows), r)
  ELSE IF e > Len(active_employees)
  THEN AttendanceLoop(day_offset + 1, 1, active_employees, attendance_id, r, rows)
  ELSE LET visit == AttendanceVisit(day_offset, active_employees[e], attendance_id, r)
       IN  AttendanceLoop(day_offset, e + 1, active_employees,
                          attendance_id + Len(visit.rows), visit.rng,
                          rows \o visit.rows)

generate_attendance_data(employees_df, r) ==
  AttendanceLoop(0, 1, Where(employees_df, "active", CBool(TRUE)), 1, r, <<>>)


\* ----------------------------------------------- generate_financial_accounts
\* account_structure flattened, five of the thirty accounts.
Accounts ==
  << <<"Assets", "Cash">>, <<"Assets", "Accounts Receivable">>,
     <<"Revenue", "Product Sales">>, <<"Expenses", "Salaries">>,
     <<"Expenses", "Rent">> >>

\* Draws of one account: opening_balance and the factor of current_balance.
\* account_code counts from 1000 and is stored as str(account_code).
RECURSIVE AccountLoop(_, _, _)
AccountLoop(i, r, rows) ==
  IF i > Len(Accounts)
  THEN Produced(DataFrame({"account_code", "account_name", "account_type", "is_active"},
                          rows), r)
  ELSE AccountLoop(i + 1, RandSkip(r, 2),
         Append(rows, [account_code |-> ToStr(CInt(999 + i)),
                       account_name |-> Txt(Accounts[i][2]),
                       account_type |-> Txt(Accounts[i][1]),
                       is_active |-> CBool(TRUE)]))

generate_financial_accounts(r) == AccountLoop(1, r, <<>>)

\* ------------------------------------------- generate_financial_transactions
FinTxnCols ==
  {"transaction_id", "transaction_type", "account_code", "debit_amount",
   "credit_amount", "reference_number"}

\* "Cash" in acc['account_name'] or "Bank" in acc['account_name']
IsCashOrBank(acc) == acc.account_name \in {Txt("Cash")}

\* "Sales" in acc['account_name']
IsSalesAccount(acc) == acc.account_name \in {Txt("Product Sales")}

\* Every sale posted, whatever its payment_status.
IsPaidOrNot(sale) == TRUE

\* Whether a sale is posted.
IsPaid(sale) == sale.payment_status = Txt("Paid")

\* One pass over sales_df: two rows per paid sale, no draw.
RECURSIVE PostingLoop(_, _, _, _, _)
PostingLoop(i, sales_df, accounts, transaction_id, rows) ==
  IF i > Len(sales_df.rows) THEN [rows |-> rows, next_id |-> transaction_id]
  ELSE LET sale == Row(sales_df, i)
           cash_account == SelectSeq(accounts, IsCashOrBank)[1]
           sales_account == SelectSeq(accounts, IsSalesAccount)[1]
       IN  IF IsPaid(sale)
           THEN PostingLoop(i + 1, sales_df, accounts, transaction_id + 2,
                  rows \o
                  << [transaction_id |-> Id("FIN", transaction_id),
                      transaction_type |-> Txt("Sales Receipt"),
                      account_code |-> cash_account.account_code,
                      debit_amount |-> sale.net_amount,
                      credit_amount |-> CFlt(0),
                      reference_number |-> sale.transaction_id],
                     [transaction_id |-> Id("FIN", transaction_id + 1),
                      transaction_type |-> Txt("Sales Revenue"),
                      account_code |-> sales_account.account_code,
                      debit_amount |-> CFlt(0),
                      credit_amount |-> CFlt(sale.net_amount.v - sale.tax_amount.v),
                      reference_number |-> sale.transaction_id] >>)
           ELSE PostingLoop(i + 1, sales_df, accounts, transaction_id, rows)

\* Each expense draws expense_date (2), account, amount, description,
\* reference_number, vendor_customer_id, payment_method.
RECURSIVE ExpenseLoop(_, _, _, _, _)
ExpenseLoop(i, accounts, transaction_id, r, rows) ==
  IF i >= NumExpenses THEN Produced(DataFrame(FinTxnCols, rows), r)
  ELSE ExpenseLoop(i + 1, accounts, transaction_id + 1, RandSkip(r, 8),
         Append(rows,
           [transaction_id |-> Id("FIN", transaction_id),
            transaction_type |-> Txt("Expense Payment"),
            account_code |->
              Choice(RandSkip(r, 3),
                     SelectSeq(accounts, LAMBDA a : a.account_type = Txt("Expenses"))
                    ).account_code,
            debit_amount |-> CFlt(Uniform(RandSkip(r, 4), 100000, 5000000)),
            credit_amount |-> CFlt(0),
            reference_number |-> Id("EXP", RandInt(RandSkip(r, 6), 1000, 9999))]))

generate_financial_transactions(accounts_df, sales_df, r) ==
  LET postings == PostingLoop(1, sales_df, accounts_df.rows, 1, <<>>)
  IN  ExpenseLoop(0, accounts_df.rows, postings.next_id, r, postings.rows)

\* ------------------------------------------------- generate_website_traffic
TrafficCols == {"session_id", "page_views", "converted", "customer_id"}

\* The customer a converted page view is attributed to.
ConvertedCustomer(r) == Id("B2C", RandInt(r, 1000, 1050))

\* One page view draws the view offset and random() for the conversion, the
\* customer number when converted, then page_url, referrer, device_type and
\* location.
RECURSIVE ViewLoop(_, _, _, _, _)
ViewLoop(view, page_views, session_id, r, rows) ==
  IF view >= page_views THEN [rows |-> rows, rng |-> r]
  ELSE LET converted == RandomBelow(RandSkip(r, 2), 5)
           r3 == IF converted THEN RandSkip(r, 3) ELSE RandSkip(r, 2)
       IN  ViewLoop(view + 1, page_views, session_id, RandSkip(r3, 4),
             Append(rows, [session_id |-> Id("SESS", session_id),
                           page_views |-> CInt(page_views),
                           converted |-> CBool(converted),
                           customer_id |-> IF converted THEN ConvertedCustomer(r3)
                                           ELSE Txt("")]))

\* One session draws the hour and minute of its start, page_views and
\* session_duration.
RECURSIVE SessionLoop(_, _, _, _, _)
SessionLoop(i, sessions, session_id, r, rows) ==
  IF i >= sessions THEN [rows |-> rows, rng |-> r, next_id |-> session_id]
  ELSE LET views == ViewLoop(0, RandInt(RandSkip(r, 3), 1, MaxPageViews), session_id,
                             RandSkip(r, 4), rows)
       IN  SessionLoop(i + 1, sessions, session_id + 1, views.rng, views.rows)

\* One day draws its number of sessions.
RECURSIVE TrafficDayLoop(_, _, _, _)
TrafficDayLoop(day_offset, session_id, r, rows) ==
  IF day_offset >= NumTrafficDays THEN Produced(DataFrame(TrafficCols, rows), r)
  ELSE LET day == SessionLoop(0, RandInt(RandStep(r), 1, MaxSessionsPerDay),
                              session_id, RandStep(r), rows)
       IN  TrafficDayLoop(day_offset + 1, day.next_id, day.rng, day.rows)

generate_website_traffic(r) == TrafficDayLoop(0, 1, r, <<>>)

\* -------------------------------------------- generate_production_analytics
\* The batches that get an analytics row.
IsCompleted(batch) == batch.status = Txt("Completed")

\* Each completed batch draws oee, downtime, cost_variance and
\* energy_consumption.
RECURSIVE ProdAnalyticsLoop(_, _, _, _, _)
ProdAnalyticsLoop(i, batches_df, analytics_id, r, rows) ==
  IF i > Len(batches_df.rows)
  THEN Produced(DataFrame({"analytics_id", "batch_id", "yield_rate", "scrap_percentage"},
                          rows), r)
  ELSE LET batch == Row(batches_df, i)
       IN  IF IsCompleted(batch)
           THEN ProdAnalyticsLoop(i + 1, batches_df, analytics_id + 1, RandSkip(r, 4),
                  Append(rows,
                    [analytics_id |-> Id("PROD-ANAL", analytics_id),
                     batch_id |-> batch.batch_id,
                     yield_rate |-> batch.yield_percentage,
                     scrap_percentage |-> CFlt(10000 - batch.yield_percentage.v)]))
           ELSE ProdAnalyticsLoop(i + 1, batches_df, analytics_id, r, rows)

generate_production_analytics(batches_df, r) ==
  ProdAnalyticsLoop(1, batches_df, 1, r, <<>>)

\* --------------------------------------------- generate_inventory_analytics
MonthsInYear == 12

\* d1 <= d2 on dates <<y, m, d>>.
DateLeq(d1, d2) ==
  \/ d1[1] < d2[1]
  \/ d1[1] = d2[1] /\ d1[2] < d2[2]
  \/ d1[1] = d2[1] /\ d1[2] = d2[2] /\ d1[3] <= d2[3]

\* The transactions of the item dated on or before the analysis date.
ItemTransactions(inventory_transactions_df, item, analysis_date) ==
  SelectSeq(inventory_transactions_df.rows,
            LAMBDA t : t.sku = item.sku /\ DateLeq(t.transaction_date.v, analysis_date))

\* round(turnover_rate, 2) and round(days_inventory, 1), in hundredths.
TurnoverRate(total_issues, avg_inventory) ==
  IF avg_inventory > 0 THEN RoundDiv(total_issues * 100, avg_inventory) ELSE 0

DaysInventory(total_issues, avg_inventory) ==
  IF avg_inventory > 0
  THEN IF total_issues > 0 THEN 10 * RoundDiv(3650 * avg_inventory, total_issues)
       ELSE 36500
  ELSE 0

\* Each analytics row draws stockout_frequency, holding_cost_percentage,
\* excess_stock_value, stockout_value and forecast_accuracy.
RECURSIVE InvAnalyticsLoop(_, _, _, _, _, _, _)
InvAnalyticsLoop(i, month, items_df, txns_df, analytics_id, r, rows) ==
  IF i > Len(items_df.rows)
  THEN Produced(DataFrame({"analytics_id", "date", "sku", "stock_turnover_rate",
                           "days_inventory_outstanding"}, rows), r)
  ELSE IF month > MonthsInYear
  THEN InvAnalyticsLoop(i + 1, 1, items_df, txns_df, analytics_id, r, rows)
  ELSE LET item == Row(items_df, i)
           item_transactions == ItemTransactions(txns_df, item, <<2024, month, 15>>)
           issues == SelectSeq(item_transactions,
                               LAMBDA t : t.transaction_type = Txt("Sales Issue"))
           total_issues == -SumQuantity(issues, "quantity")
           avg_inventory == item.current_stock.v
       IN  IF item_transactions # <<>>
           THEN InvAnalyticsLoop(i, month + 1, items_df, txns_df, analytics_id + 1,
                  RandSkip(r, 5),
                  Append(rows,
                    [analytics_id |-> Id("INV-ANAL", analytics_id),
                     date |-> CDate(2024, month, 15),
                     sku |-> item.sku,
                     stock_turnover_rate |->
                       CFlt(TurnoverRate(total_issues, avg_inventory)),
                     days_inventory_outstanding |->
                       CFlt(DaysInventory(total_issues, avg_inventory))]))
           ELSE InvAnalyticsLoop(i, month + 1, items_df, txns_df, analytics_id, r, rows)

generate_inventory_analytics(inventory_items_df, inventory_transactions_df, r) ==
  InvAnalyticsLoop(1, 1, inventory_items_df, inventory_transactions_df, 1, r, <<>>)

\* ------------------------------------------------------ generate_audit_logs
AuditCols == {"log_id", "tenant_id", "user_id", "user_role", "module", "action"}

\* 'Manager' in position, 'Sales' in position, 'Production' in position.
HasManager(position) ==
  position \in {Txt("Production Manager"), Txt("QC Manager"), Txt("Sales Manager")}
HasSales(position) == position \in {Txt("Sales Manager")}
HasProduction(position) ==
  position \in {Txt("Production Manager"), Txt("Production Worker")}

ModuleActions(module) ==
  CASE module = "Production" ->
         <<"CREATE_BATCH", "UPDATE_FORMULATION", "VIEW_REPORT", "APPROVE_QC">>
    [] module = "Inventory" -> <<"ADD_STOCK", "ISSUE_STOCK", "TRANSFER", "ADJUST">>
    [] module = "Sales" ->
         <<"CREATE_ORDER", "PROCESS_PAYMENT", "ISSUE_INVOICE", "VIEW_CUSTOMER">>
    [] module = "Finance" ->
         <<"POST_TRANSACTION", "GENERATE_REPORT", "APPROVE_PAYMENT", "RECONCILE">>
    [] module = "HR" ->
         <<"ADD_EMPLOYEE", "UPDATE_SALARY", "APPROVE_LEAVE", "GENERATE_PAYROLL">>
    [] module = "System" -> <<"LOGIN", "LOGOUT", "CHANGE_SETTING", "VIEW_AUDIT">>
    [] OTHER -> <<"VIEW", "UPDATE">>

\* One log draws user and tenant, the module unless the position fixes it,
\* the action, then ip (2), timestamp (3), resource, resource_id (4), success.
LogEntry(log_id, users, tenant_ids, r) ==
  LET user == Choice(RandSkip(r, 1), users)
      tenant == Choice(RandSkip(r, 2), tenant_ids)
      drawn == HasManager(user.position)
               \/ (~HasSales(user.position) /\ ~HasProduction(user.position))
      r3 == IF drawn THEN RandSkip(r, 3) ELSE RandSkip(r, 2)
      module == IF HasManager(user.position)
                THEN Choice(r3, <<"Production", "Inventory", "Sales", "Finance", "HR">>)
                ELSE IF HasSales(user.position) THEN "Sales"
                ELSE IF HasProduction(user.position) THEN "Production"
                ELSE Choice(r3, <<"System", "Inventory", "HR">>)
  IN  [row |-> [log_id |-> Id("AUDIT", log_id),
                tenant_id |-> tenant,
                user_id |-> user.employee_id,
                user_role |-> user.position,
                module |-> Txt(module),
                action |-> Txt(Choice(RandStep(r3), ModuleActions(module)))],
       rng |-> RandSkip(r3, 12)]

RECURSIVE LogLoop(_, _, _, _, _, _)
LogLoop(i, count, log_id, env, r, rows) ==
  IF i >= count THEN [rows |-> rows, rng |-> r, next_id |-> log_id]
  ELSE LET entry == LogEntry(log_id, env.users, env.tenant_ids, r)
       IN  LogLoop(i + 1, count, log_id + 1, env, entry.rng, Append(rows, entry.row))

\* One day draws its number of logs.
RECURSIVE LogDayLoop(_, _, _, _, _)
LogDayLoop(day_offset, log_id, env, r, rows) ==
  IF day_offset >= NumLogDays THEN Produced(DataFrame(AuditCols, rows), r)
  ELSE LET day == LogLoop(0, RandInt(RandStep(r), 1, MaxLogsPerDay), log_id, env,
                          RandStep(r), rows)
       IN  LogDayLoop(day_offset + 1, day.next_id, env, day.rng, day.rows)

generate_audit_logs(tenants_df, employees_df, sales_df, r) ==
  LogDayLoop(0, 1, [users |-> employees_df.rows,
                    tenant_ids |-> ColumnOf(tenants_df.rows, "tenant_id")], r, <<>>)


\* ------------------------------------------------------- generate_demo_data
VARIABLES
  store,       \* st.session_state.generated_data: table name -> DataFrame
  rng,         \* the state of the module random
  pc,          \* 0 when no run is under way, else the step of generate_demo_data
  seed,        \* the argument of the running generate_demo_data
  datasets,    \* the tables the run has produced so far
  reports,     \* the validation reports of the run
  outcome,     \* what the last script run showed the user
  uploaded,    \* the file in the uploader, or NoFile
  table_name,  \* the target table selected for the upload
  prevRun,     \* history: the seed and the results of some run that returned
  vname,       \* validate_table called on its own: its table_name argument,
  vin,         \* the table as it was handed in,
  vcalls       \* and what each successive call on that table returned

vars == <<store, rng, pc, seed, datasets, reports, outcome, uploaded, table_name,
          prevRun, vname, vin, vcalls>>

ui == <<store, rng, pc, seed, datasets, reports, outcome, uploaded, table_name, prevRun>>
probe == <<vname, vin, vcalls>>

NoTables == [n \in {} |-> EmptyFrame]

\* The order of the seventeen calls ("Step k/17").
StepOrder ==
  << "dim_tenants", "dim_employees", "dim_formulations", "dim_raw_materials",
     "dim_customers", "fact_production_batches", "dim_inventory_items",
     "fact_inventory_transactions", "fact_sales_transactions",
     "fact_ecommerce_orders", "fact_attendance", "dim_accounts",
     "fact_financial_transactions", "fact_website_traffic",
     "fact_production_analytics", "fact_inventory_analytics", "fact_audit_logs" >>

NumSteps == Len(StepOrder)

\* An order with raw materials and customers exchanged.
GeneratorAtSwapped(k) ==
  IF k = 4 THEN StepOrder[5] ELSE IF k = 5 THEN StepOrder[4] ELSE StepOrder[k]

\* The table produced at step k.
GeneratorAt(k) == StepOrder[k]

\* The tables each call takes as arguments.
Arguments(name) ==
  CASE name = "fact_production_batches" -> {"dim_formulations", "dim_employees"}
    [] name = "dim_inventory_items" -> {"fact_production_batches", "dim_formulations"}
    [] name = "fact_inventory_transactions" ->
         {"dim_inventory_items", "fact_production_batches", "dim_employees",
          "dim_formulations"}
    [] name = "fact_sales_transactions" ->
         {"dim_inventory_items", "dim_customers", "dim_employees"}
    [] name = "fact_ecommerce_orders" -> {"dim_customers", "fact_sales_transactions"}
    [] name = "fact_attendance" -> {"dim_employees"}
    [] name = "fact_financial_transactions" -> {"dim_accounts", "fact_sales_transactions"}
    [] name = "fact_production_analytics" -> {"fact_production_batches"}
    [] name = "fact_inventory_analytics" ->
         {"dim_inventory_items", "fact_inventory_transactions"}
    [] name = "fact_audit_logs" -> {"dim_tenants", "dim_employees", "fact_sales_transactions"}
    [] OTHER -> {}

\* The call of step `name` on the tables produced so far.
RunGenerator(name, d, r) ==
  CASE name = "dim_tenants" -> generate_tenants_data(r)
    [] name = "dim_employees" -> generate_employees_data(r)
    [] name = "dim_formulations" -> generate_formulations_data(r)
    [] name = "dim_raw_materials" -> generate_raw_materials_data(r)
    [] name = "dim_customers" -> generate_customers_data(r)
    [] name = "fact_production_batches" ->
         generate_production_batches(d["dim_formulations"], d["dim_employees"], r)
    [] name = "dim_inventory_items" ->
         generate_inventory_items(d["fact_production_batches"], d["dim_formulations"], r)
    [] name = "fact_inventory_transactions" ->
         generate_inventory_transactions(d["dim_inventory_items"],
                                         d["fact_production_batches"],
                                         d["dim_employees"], d["dim_formulations"], r)
    [] name = "fact_sales_transactions" ->
         generate_sales_transactions(d["dim_inventory_items"], d["dim_customers"],
                                     d["dim_employees"], r)
    [] name = "fact_ecommerce_orders" ->
         generate_ecommerce_orders(d["dim_customers"], d["fact_sales_transactions"], r)
    [] name = "fact_attendance" -> generate_attendance_data(d["dim_employees"], r)
    [] name = "dim_accounts" -> generate_financial_accounts(r)
    [] name = "fact_financial_transactions" ->
         generate_financial_transactions(d["dim_accounts"],
                                         d["fact_sales_transactions"], r)
    [] name = "fact_website_traffic" -> generate_website_traffic(r)
    [] name = "fact_production_analytics" ->
         generate_production_analytics(d["fact_production_batches"], r)
    [] name = "fact_inventory_analytics" ->
         generate_inventory_analytics(d["dim_inventory_items"],
                                      d["fact_inventory_transactions"], r)
    [] OTHER ->
         generate_audit_logs(d["dim_tenants"], d["dim_employees"],
                             d["fact_sales_transactions"], r)

\* A run that goes on from the state the random source is in.
ReseedKept(r, s) == r

\* random.seed(seed) at the top of generate_demo_data.
Reseed(r, s) == SeedState(s)

\* A failure that leaves the tables produced so far in the store.
StoreAfterFailurePartial(old, produced) == produced @@ old

\* What the store holds after a run that raised.
StoreAfterFailure(old, produced) == old

\* A run that adds its tables to the entries the store holds.
StoreAfterGenerateMerged(old, produced) == old @@ produced

\* What the store holds after a run that returned.
StoreAfterGenerate(old, produced) == produced

Seeds == (0..MaxSeed) \cup {FurtherSeed}

\* The Generate button: generate_demo_data(int(seed)) starts.
ClickGenerate(s) ==
  /\ pc = 0
  /\ pc' = 1
  /\ seed' = s
  /\ rng' = Reseed(rng, s)
  /\ datasets' = NoTables
  /\ reports' = NoTables
  /\ outcome' = "generating"
  /\ UNCHANGED <<store, uploaded, table_name, prevRun>>

\* "Step pc/17": one generator call.  An exception leaves the try block, is
\* wrapped once and reported by main; the run is over.
GenerateStep ==
  /\ pc \in 1..NumSteps
  /\ LET name == GeneratorAt(pc)
         res == RunGenerator(name, datasets, rng)
     IN  /\ rng' = res.rng
         /\ IF res.ok
            THEN /\ datasets' = (name :> res.df) @@ datasets
                 /\ pc' = pc + 1
                 /\ UNCHANGED <<store, outcome>>
            ELSE /\ datasets' = NoTables
                 /\ pc' = 0
                 /\ store' = StoreAfterFailure(store, datasets)
                 /\ outcome' = "generate_error"
  /\ UNCHANGED <<seed, reports, uploaded, table_name, prevRun>>

\* The validation loop over datasets.items() and the return.
ValidateStep ==
  /\ pc = NumSteps + 1
  /\ datasets' = [n \in DOMAIN datasets |-> validate_table(n, datasets[n]).df]
  /\ reports' = [n \in DOMAIN datasets |-> validate_table(n, datasets[n]).report]
  /\ pc' = NumSteps + 2
  /\ UNCHANGED <<store, rng, seed, outcome, uploaded, table_name, prevRun>>

\* st.session_state.generated_data = datasets, and the success message.
Commit ==
  /\ pc = NumSteps + 2
  /\ store' = StoreAfterGenerate(store, datasets)
  /\ prevRun' \in {prevRun, [seed |-> seed, datasets |-> datasets, reports |-> reports]}
  /\ pc' = 0
  /\ datasets' = NoTables
  /\ reports' = NoTables
  /\ outcome' = "generated"
  /\ UNCHANGED <<rng, seed, uploaded, table_name>>


\* ------------------------------------------------------------ upload, store
NoFile == [parsed |-> FALSE, df |-> EmptyFrame, present |-> FALSE]
BadFile == [parsed |-> FALSE, df |-> EmptyFrame, present |-> TRUE]
FileOf(df) == [parsed |-> TRUE, df |-> df, present |-> TRUE]

DateText(y, m, d) == CStr(<<"#date", <<y, m, d>>>>)

\* The files the user uploads: one that no reader parses, a customers
\* extract, the same without its customer_type column, an orders extract
\* with ISO dates, and one with an unreadable order date.
Files ==
  { BadFile,
    FileOf(DataFrame({"customer_id", "customer_type"},
                     << [customer_id |-> Id("B2C", 7), customer_type |-> Txt("Individual")] >>)),
    FileOf(DataFrame({"customer_id"}, << [customer_id |-> Id("B2C", 7)] >>)),
    FileOf(DataFrame({"order_id", "order_date", "customer_id"},
                     << [order_id |-> Id("ECOMM", 9), order_date |-> DateText(2024, 6, 1),
                         customer_id |-> Id("B2C", 7)] >>)),
    FileOf(DataFrame({"order_id", "order_date", "customer_id"},
                     << [order_id |-> Id("ECOMM", 9), order_date |-> Txt("n/a"),
                         customer_id |-> Id("B2C", 7)] >>)) }

\* The targets the user selects in the "Target table" box.
UploadTargets == {"dim_customers", "fact_ecommerce_orders"}

\* What the upload section shows for the file in the uploader.
UploadOutcome(file, name) ==
  IF ~file.present THEN "no_file"
  ELSE IF ~file.parsed THEN "upload_failed"
  ELSE IF validate_table(name, file.df).report.ok THEN "upload_valid"
  ELSE "upload_blocked"

\* Whether the "Save into platform" button is offered.
SaveOffered(file, name) ==
  file.present /\ file.parsed /\ validate_table(name, file.df).report.ok

\* The clean table stored under the name of the widget, not of the table.
StoreAfterSaveAsUpload(old, name, clean) == ("uploaded" :> clean) @@ old

\* st.session_state.generated_data[table_name] = clean
StoreAfterSave(old, name, clean) == (name :> clean) @@ old

\* The user picks the target table; the script reruns on the file present.
SelectTable(name) ==
  /\ pc = 0
  /\ name # table_name
  /\ table_name' = name
  /\ outcome' = UploadOutcome(uploaded, name)
  /\ UNCHANGED <<store, rng, pc, seed, datasets, reports, uploaded, prevRun>>

\* The user puts a file into the uploader: it is read, validated and shown.
UploadFile(file) ==
  /\ pc = 0
  /\ file # uploaded
  /\ uploaded' = file
  /\ outcome' = UploadOutcome(file, table_name)
  /\ UNCHANGED <<store, rng, pc, seed, datasets, reports, table_name, prevRun>>

\* The Save button: the script reruns, reads and validates the file again,
\* and stores the clean table.
ClickSave ==
  /\ pc = 0
  /\ SaveOffered(uploaded, table_name)
  /\ store' = StoreAfterSave(store, table_name, validate_table(table_name, uploaded.df).df)
  /\ outcome' = "saved"
  /\ UNCHANGED <<rng, pc, seed, datasets, reports, uploaded, table_name, prevRun>>

\* The download buttons: the table is serialised, the store is only read.
Export(name) ==
  /\ pc = 0
  /\ name \in DOMAIN store
  /\ outcome' = "exported"
  /\ outcome # "exported"
  /\ UNCHANGED <<store, rng, pc, seed, datasets, reports, uploaded, table_name, prevRun>>

\* "Clear all loaded tables".
ClearAll ==
  /\ pc = 0
  /\ store' = NoTables
  /\ outcome' = "cleared"
  /\ UNCHANGED <<rng, pc, seed, datasets, reports, uploaded, table_name, prevRun>>

\* "Reset to Defaults".
ResetDefaults ==
  /\ pc = 0
  /\ store' = NoTables
  /\ outcome' = "reset"
  /\ UNCHANGED <<rng, pc, seed, datasets, reports, uploaded, table_name, prevRun>>

NoRun == [seed |-> -1, datasets |-> NoTables, reports |-> NoTables]

Init ==
  /\ store = NoTables
  /\ rng = SeedState(RANDOM_SEED)
  /\ pc = 0
  /\ seed = RANDOM_SEED
  /\ datasets = NoTables
  /\ reports = NoTables
  /\ outcome = "started"
  /\ uploaded = NoFile
  /\ table_name = "dim_customers"
  /\ prevRun = NoRun
  /\ vname = "none"
  /\ vin = EmptyFrame
  /\ vcalls = <<>>

Next ==
  \/ \E s \in Seeds : ClickGenerate(s) /\ UNCHANGED probe
  \/ GenerateStep /\ UNCHANGED probe
  \/ ValidateStep /\ UNCHANGED probe
  \/ Commit /\ UNCHANGED probe
  \/ \E name \in UploadTargets : SelectTable(name) /\ UNCHANGED probe
  \/ \E file \in Files : UploadFile(file) /\ UNCHANGED probe
  \/ ClickSave /\ UNCHANGED probe
  \/ \E name \in UploadTargets : Export(name) /\ UNCHANGED probe
  \/ ClearAll /\ UNCHANGED probe
  \/ ResetDefaults /\ UNCHANGED probe

Spec == Init /\ [][Next]_vars


\* ------------------------------------------------- validate_table on its own
\* Calls of validate_table on tables that need not come from a generator:
\* vname and vin are the arguments, vcalls the results of the first call and
\* of the call on the table the first call returned.
ValidateNames ==
  {"dim_tenants", "fact_ecommerce_orders", "fact_website_traffic",
   "fact_inventory_analytics", "unknown_table"}

\* The cells a probed table is filled with.
Palette ==
  { Txt("abc"), Null, CInt(7), CFlt(150), CBool(FALSE),
    CStr(<<"#date", <<2024, 6, 1>>>>), CStr(<<"#int", 12>>) }

\* The column names the probed tables draw on.
ProbeCols(name) ==
  IF IsKnownTable(name) THEN RequiredCols(name) ELSE RequiredCols("dim_tenants")

\* All of them, or all but one, with or without a column the schema lacks.
ProbeColumnSets(name) ==
  { (ProbeCols(name) \ dropped) \cup added :
      dropped \in {{}} \cup {{c} : c \in ProbeCols(name)},
      added \in {{}, {"extra"}} }

\* Tables of up to MaxRows rows, a row holding one palette cell throughout.
ProbeFrames(name) ==
  { [cols |-> cols, rows |-> [i \in 1..Len(cells) |-> [c \in cols |-> cells[i]]]] :
      cols \in ProbeColumnSets(name),
      cells \in UNION {[1..m -> Palette] : m \in 0..MaxRows} }

InitValidate ==
  /\ store = NoTables
  /\ rng = SeedState(RANDOM_SEED)
  /\ pc = 0
  /\ seed = RANDOM_SEED
  /\ datasets = NoTables
  /\ reports = NoTables
  /\ outcome = "started"
  /\ uploaded = NoFile
  /\ table_name = "dim_customers"
  /\ prevRun = NoRun
  /\ vname \in ValidateNames
  /\ vin \in ProbeFrames(vname)
  /\ vcalls = <<>>

\* clean, report = validate_table(vname, vin)
CallValidate ==
  /\ vcalls = <<>>
  /\ vcalls' = <<validate_table(vname, vin)>>
  /\ UNCHANGED <<vname, vin>>
  /\ UNCHANGED ui

\* validate_table(vname, clean) on the table the first call returned.
Revalidate ==
  /\ Len(vcalls) = 1
  /\ vcalls' = Append(vcalls, validate_table(vname, vcalls[1].df))
  /\ UNCHANGED <<vname, vin>>
  /\ UNCHANGED ui

NextValidate ==
  \/ CallValidate
  \/ Revalidate

SpecValidate == InitValidate /\ [][NextValidate]_vars


\* ------------------------------------------------------ validate_table claims
FirstCall == vcalls[1]
SecondCall == vcalls[2]

\* required_cols - actual_cols of the table given.
MissingIn(name, df) == RequiredCols(name) \ df.cols

\* Some required column present in the table given does not convert.
ConversionFailsIn(name, df) ==
  \E i \in 1..Len(SCHEMAS[name]) :
    /\ SCHEMAS[name][i].col \in df.cols
    /\ ColumnFails(df, SCHEMAS[name][i].col, SCHEMAS[name][i].type)

IsWarning(w) == w[1] = "Extra columns" \/ w[1] = "Null values"
IsFatal(e) == e[1] = "Missing columns" \/ e[1] = "Type conversion failed"

\* C5: for a table name that is no key of SCHEMAS, validate_table returns
\* ok = FALSE, exactly one error, no warning, and the table it was given with
\* no column or value changed.
C5_UnknownTableReport ==
  (Len(vcalls) >= 1 /\ ~IsKnownTable(vname)) =>
     /\ FirstCall.report.ok = FALSE
     /\ Len(FirstCall.report.errors) = 1
     /\ Len(FirstCall.report.warnings) = 0
     /\ FirstCall.df = vin

\* An unknown name validated on a table that has rows and a stray column.
C5_Witness ==
  /\ Len(vcalls) >= 1
  /\ ~IsKnownTable(vname)
  /\ Len(vin.rows) = MaxRows
  /\ "extra" \in vin.cols
  /\ vin.rows[1]["extra"].k = "null"

\* C6: for a known table name, ok is TRUE exactly when no required column is
\* missing and no type conversion failed; extra columns and null values show
\* only among the warnings, and every error is one of the two fatal kinds.
C6_OkIffNoFatalError ==
  (Len(vcalls) >= 1 /\ IsKnownTable(vname)) =>
     /\ FirstCall.report.ok <=>
          (MissingIn(vname, vin) = {} /\ ~ConversionFailsIn(vname, vin))
     /\ \A i \in 1..Len(FirstCall.report.errors) : IsFatal(FirstCall.report.errors[i])
     /\ \A i \in 1..Len(FirstCall.report.warnings) : IsWarning(FirstCall.report.warnings[i])

\* A known table with an extra column and a null in a required column that
\* validates with ok = TRUE and two or more warnings.
C6_Witness ==
  /\ Len(vcalls) >= 1
  /\ IsKnownTable(vname)
  /\ "extra" \in vin.cols
  /\ FirstCall.report.ok
  /\ \E i \in 1..Len(FirstCall.report.warnings) : FirstCall.report.warnings[i][1] = "Null values"
  /\ \E i \in 1..Len(FirstCall.report.warnings) : FirstCall.report.warnings[i][1] = "Extra columns"

\* C7: for a known table name, validating the table a first validate_table
\* call returned gives that same table and a report with the same row_count,
\* errors, warnings and ok.
C7_Idempotent ==
  (Len(vcalls) >= 2 /\ IsKnownTable(vname)) =>
     /\ SecondCall.df = FirstCall.df
     /\ SecondCall.report.row_count = FirstCall.report.row_count
     /\ SecondCall.report.errors = FirstCall.report.errors
     /\ SecondCall.report.warnings = FirstCall.report.warnings
     /\ SecondCall.report.ok = FirstCall.report.ok

\* A second call on a table the first call changed and warned about.
C7_Witness ==
  /\ Len(vcalls) >= 2
  /\ IsKnownTable(vname)
  /\ FirstCall.df # vin
  /\ FirstCall.report.warnings # <<>>
  /\ FirstCall.report.ok


\* ------------------------------------------------------- store and run claims
Returned == pc = NumSteps + 2
Filled(tables) == DOMAIN tables # {}

\* The values of one column of one table.
ValuesOf(tables, name, col) ==
  {tables[name].rows[i][col] : i \in 1..Len(tables[name].rows)}

\* C1: when a generator raises, or the parse of an uploaded file raises, the
\* operation ends in one failure and the store holds what it held when the
\* operation started: no step of a run that has not returned, and no failed
\* upload, changes the store.
C1_FailureKeepsStore ==
  [][ (pc' # 0 \/ outcome' = "generate_error" \/ outcome' = "upload_failed")
        => store' = store ]_vars

\* A run that raised after an earlier run had filled the store, with a file in
\* the uploader that no reader parsed.
C1_Witness ==
  /\ outcome = "generate_error"
  /\ pc = 0
  /\ DOMAIN store = TableNames
  /\ uploaded = BadFile

\* C2: the store never holds a table whose validation report has ok = FALSE,
\* whether the table came from an upload or from a generation run.
C2_StoreHoldsOnlyValidTables ==
  \A name \in DOMAIN store : validate_table(name, store[name]).report.ok

\* One reference column of a returned fact table resolves in its dimension.
Resolves(fact, col, dim, key) ==
  ValuesOf(datasets, fact, col) \subseteq ValuesOf(datasets, dim, key)

\* C3: in the tables one run returns, every reference field of every fact row
\* equals an identifier of the corresponding dimension table of that run
\* (an empty customer_id of an unconverted session refers to nothing).
C3_ReferencesResolve ==
  Returned =>
    /\ Resolves("fact_production_batches", "formulation_id", "dim_formulations", "formulation_id")
    /\ Resolves("fact_production_batches", "supervisor_id", "dim_employees", "employee_id")
    /\ Resolves("fact_inventory_transactions", "sku", "dim_inventory_items", "sku")
    /\ Resolves("fact_inventory_transactions", "batch_id", "fact_production_batches", "batch_id")
    /\ Resolves("fact_inventory_transactions", "employee_id", "dim_employees", "employee_id")
    /\ Resolves("fact_sales_transactions", "customer_id", "dim_customers", "customer_id")
    /\ Resolves("fact_sales_transactions", "sku", "dim_inventory_items", "sku")
    /\ Resolves("fact_sales_transactions", "employee_id", "dim_employees", "employee_id")
    /\ Resolves("fact_ecommerce_orders", "customer_id", "dim_customers", "customer_id")
    /\ Resolves("fact_attendance", "employee_id", "dim_employees", "employee_id")
    /\ Resolves("fact_financial_transactions", "account_code", "dim_accounts", "account_code")
    /\ Resolves("fact_production_analytics", "batch_id", "fact_production_batches", "batch_id")
    /\ Resolves("fact_inventory_analytics", "sku", "dim_inventory_items", "sku")
    /\ Resolves("fact_audit_logs", "tenant_id", "dim_tenants", "tenant_id")
    /\ Resolves("fact_audit_logs", "user_id", "dim_employees", "employee_id")
    /\ ValuesOf(datasets, "fact_website_traffic", "customer_id")
         \subseteq (ValuesOf(datasets, "dim_customers", "customer_id") \cup {Txt("")})

\* C4: a run of generate_demo_data(s) returns the tables and the reports that
\* any earlier run with the same seed returned, whatever was generated,
\* uploaded or cleared in between.
C4_SameSeedSameResult ==
  (Returned /\ prevRun.seed = seed) =>
     /\ datasets = prevRun.datasets
     /\ reports = prevRun.reports

\* A run that returns with the seed of a remembered run, after the random
\* source and the store were left in another state by a run with another seed.
C4_Witness ==
  /\ Returned
  /\ prevRun.seed = seed
  /\ Filled(store)
  /\ \E name \in DOMAIN store : store[name] # prevRun.datasets[name]

\* The order of the generators, as stated.
StatedOrder ==
  << "dim_tenants", "dim_employees", "dim_formulations", "dim_raw_materials",
     "dim_customers", "fact_production_batches", "dim_inventory_items",
     "fact_inventory_transactions", "fact_sales_transactions",
     "fact_ecommerce_orders", "fact_attendance", "dim_accounts",
     "fact_financial_transactions", "fact_website_traffic",
     "fact_production_analytics", "fact_inventory_analytics", "fact_audit_logs" >>

FirstOfStatedOrder(n) == {StatedOrder[i] : i \in 1..n}

\* C8: the generators run in the one stated order; a generator starts only
\* when every table it takes as an argument has been produced; a report
\* exists only when all 17 generators have finished.
C8_FixedOrder ==
  /\ pc \in 1..NumSteps =>
       /\ GeneratorAt(pc) = StatedOrder[pc]
       /\ DOMAIN datasets = FirstOfStatedOrder(pc - 1)
       /\ Arguments(GeneratorAt(pc)) \subseteq DOMAIN datasets
       /\ ~Filled(reports)
  /\ pc = NumSteps + 1 => ~Filled(reports)
  /\ Filled(reports) => DOMAIN datasets = FirstOfStatedOrder(Len(StatedOrder))

\* All 17 generators have finished and every table has its report.
C8_Witness ==
  /\ Returned
  /\ DOMAIN reports = TableNames
  /\ DOMAIN datasets = TableNames

\* C9: a generator whose upstream table has no eligible row does not return:
\* where its table is among the tables of the run, the upstream table had an
\* Active formulation, a Completed batch, an Individual customer.
C9_NoEligibleRowsFails ==
  /\ "fact_production_batches" \in DOMAIN datasets =>
       EligibleFormulations(datasets["dim_formulations"]) # <<>>
  /\ "fact_ecommerce_orders" \in DOMAIN datasets =>
       EligibleCustomers(datasets["dim_customers"]) # <<>>
  /\ "fact_production_analytics" \in DOMAIN datasets =>
       \E i \in 1..Len(datasets["fact_production_batches"].rows) :
          IsCompleted(datasets["fact_production_batches"].rows[i])

\* C10: the store changes by whole tables only. A run that returns sets it to
\* exactly the 17 tables of that run; Save sets the entry of the selected
\* name to the clean table and leaves every other entry; Clear and Reset
\* leave it empty; export, validation and every other step leave it alone.
C10_WholeTableReplacement ==
  [][ /\ (pc = NumSteps + 2 /\ pc' = 0) =>
           (store' = datasets /\ DOMAIN store' = TableNames)
      /\ (pc = 0 /\ outcome' = "saved") =>
           /\ DOMAIN store' = DOMAIN store \cup {table_name}
           /\ store'[table_name] = validate_table(table_name, uploaded.df).df
           /\ \A name \in DOMAIN store \ {table_name} : store'[name] = store[name]
      /\ (pc = 0 /\ outcome' \in {"cleared", "reset"}) => DOMAIN store' = {}
      /\ (pc' # 0 \/ outcome' \notin {"generated", "saved", "cleared", "reset"})
           => store' = store ]_vars

\* A store that holds a saved upload next to the tables of a run, after an
\* export.
C10_Witness ==
  /\ outcome = "exported"
  /\ DOMAIN store = TableNames
  /\ Len(store["dim_customers"].rows) = 1
  /\ Len(store["dim_tenants"].rows) > 1


\* ------------------------------------------------------------ table claims
\* The primary identifier column of a table: the first column of its schema.
PrimaryId(name) == SCHEMAS[name][1].col

\* No two rows of the table agree on the column.
UniqueIn(df, col) ==
  \A i, j \in 1..Len(df.rows) : df.rows[i][col] = df.rows[j][col] => i = j

\* C11: in every table a run returns, no two rows have the same value in the
\* primary identifier column of the table.
C11_PrimaryIdsUnique ==
  Returned => \A name \in DOMAIN datasets : UniqueIn(datasets[name], PrimaryId(name))

\* |a| for an integer a.
Abs(a) == IF a < 0 THEN -a ELSE a

\* The rows of a table of the run under way, none when it is not produced yet.
RowsOf(name) == IF name \in DOMAIN datasets THEN datasets[name].rows ELSE <<>>

\* C12: for every production batch, as generated and after validation, the
\* stored yield_percentage is within 0.01 of actual_quantity /
\* planned_quantity * 100 (amounts in hundredths: |y * planned - actual *
\* 10000| < planned).
C12_YieldFromQuantities ==
  \A i \in 1..Len(RowsOf("fact_production_batches")) :
    LET b == RowsOf("fact_production_batches")[i]
    IN  Abs(b.yield_percentage.v * b.planned_quantity.v - b.actual_quantity.v * 10000)
          < b.planned_quantity.v

\* A validated batch whose yield is not the expected yield of its formulation.
C12_Witness ==
  /\ Returned
  /\ \E i \in 1..Len(RowsOf("fact_production_batches")) :
       \E j \in 1..Len(RowsOf("dim_formulations")) :
          LET b == RowsOf("fact_production_batches")[i]
              f == RowsOf("dim_formulations")[j]
          IN  /\ b.formulation_id = f.formulation_id
              /\ b.yield_percentage.v # f.expected_yield_percentage.v
              /\ b.actual_quantity.v > 0

\* C13: for every sales transaction, net_amount is within 0.01 of
\* total_amount - discount_amount + tax_amount (amounts in hundredths).
C13_NetAmount ==
  \A i \in 1..Len(RowsOf("fact_sales_transactions")) :
    LET s == RowsOf("fact_sales_transactions")[i]
    IN  Abs(s.net_amount.v - (s.total_amount.v - s.discount_amount.v + s.tax_amount.v)) < 1

\* A returned sale with a discount and a tax, both positive.
C13_Witness ==
  /\ Returned
  /\ \E i \in 1..Len(RowsOf("fact_sales_transactions")) :
       LET s == RowsOf("fact_sales_transactions")[i]
       IN  s.discount_amount.v > 0 /\ s.tax_amount.v > 0 /\ s.net_amount.v > s.total_amount.v

C15_NoIssueWithoutStock ==
  \A i \in 1..Len(RowsOf("dim_inventory_items")) :
    RowsOf("dim_inventory_items")[i].current_stock.v = 0 =>
      \A j \in 1..Len(RowsOf("fact_inventory_transactions")) :
        LET t == RowsOf("fact_inventory_transactions")[j]
        IN  ~(t.transaction_type = Txt("Sales Issue")
              /\ t.sku = RowsOf("dim_inventory_items")[i].sku)

\* An item without stock that a transfer moved, next to an item with issues.
C15_Witness ==
  /\ \E i \in 1..Len(RowsOf("dim_inventory_items")) :
       /\ RowsOf("dim_inventory_items")[i].current_stock.v = 0
       /\ \E j \in 1..Len(RowsOf("fact_inventory_transactions")) :
            /\ RowsOf("fact_inventory_transactions")[j].sku = RowsOf("dim_inventory_items")[i].sku
            /\ RowsOf("fact_inventory_transactions")[j].transaction_type = Txt("Stock Transfer")
  /\ \E j \in 1..Len(RowsOf("fact_inventory_transactions")) :
       RowsOf("fact_inventory_transactions")[j].transaction_type = Txt("Sales Issue")

\* A value pd.to_numeric cannot parse, or a missing one.
Unparseable(c) ==
  \/ c.k \in {"null", "date", "datetime", "time"}
  \/ c.k = "str" /\ c.v[1] \notin {"#int", "#float"}

NumericEntries(name) ==
  {i \in 1..Len(SCHEMAS[name]) : SCHEMAS[name][i].type \in {"int", "float"}}

Zero(type) == IF type = "int" THEN CInt(0) ELSE CFlt(0)

PassOf(t) ==
  CASE t.transaction_type = Txt("Production Receipt") -> 1
    [] t.transaction_type = Txt("Sales Issue") -> 2
    [] t.transaction_type = Txt("Stock Transfer") -> 3
    [] OTHER -> 0

\* C17: the rows of fact_inventory_transactions carry, in table order, the
\* ids INV-000001, INV-000002, ... without gap or repeat; every Production
\* Receipt row stands before every Sales Issue row, and every Sales Issue row
\* before every one of the Stock Transfer rows, whose number is fixed.
C17_TransactionIdsInPassOrder ==
  "fact_inventory_transactions" \in DOMAIN datasets =>
    LET rows == RowsOf("fact_inventory_transactions")
    IN  /\ \A j \in 1..Len(rows) : rows[j].transaction_id = Id("INV", j)
        /\ \A j \in 1..Len(rows) : PassOf(rows[j]) \in 1..3
        /\ \A j, k \in 1..Len(rows) : j < k => PassOf(rows[j]) <= PassOf(rows[k])
        /\ Cardinality({j \in 1..Len(rows) : PassOf(rows[j]) = 3}) = NumTransfers

\* A table that holds rows of all three passes.
C17_Witness ==
  /\ Returned
  /\ \A pass \in 1..3 :
       \E j \in 1..Len(RowsOf("fact_inventory_transactions")) :
         PassOf(RowsOf("fact_inventory_transactions")[j]) = pass
  /\ Len(RowsOf("fact_inventory_transactions")) >= 4

\* The rows of fact_financial_transactions that refer to a sale.
PostingsOf(sale) ==
  {j \in 1..Len(RowsOf("fact_financial_transactions")) :
     RowsOf("fact_financial_transactions")[j].reference_number = sale.transaction_id}

\* The row of dim_accounts a financial transaction is booked on.
AccountsOf(t) ==
  {a \in 1..Len(RowsOf("dim_accounts")) :
     RowsOf("dim_accounts")[a].account_code = t.account_code}

OnAccount(t, Test(_)) ==
  /\ AccountsOf(t) # {}
  /\ \A a \in AccountsOf(t) : Test(RowsOf("dim_accounts")[a])

IsExpensesAccount(acc) == acc.account_type = Txt("Expenses")

PaidSales ==
  {i \in 1..Len(RowsOf("fact_sales_transactions")) :
     RowsOf("fact_sales_transactions")[i].payment_status = Txt("Paid")}

ExpenseRows ==
  {j \in 1..Len(RowsOf("fact_financial_transactions")) :
     RowsOf("fact_financial_transactions")[j].transaction_type = Txt("Expense Payment")}

\* C18: fact_financial_transactions holds, for every sale with payment_status
\* Paid, exactly two rows whose reference_number is the transaction_id of the
\* sale (one debiting net_amount with credit 0 on the cash/bank account, one
\* crediting net_amount - tax_amount with debit 0 on the sales account), no
\* row that refers to a sale that is not Paid, and beside them the fixed
\* number of Expense Payment rows, each on an account of type Expenses.
C18_PostingsOfPaidSales ==
  "fact_financial_transactions" \in DOMAIN datasets =>
    LET fin == RowsOf("fact_financial_transactions")
        sales == RowsOf("fact_sales_transactions")
    IN  /\ \A i \in 1..Len(sales) :
             IF i \in PaidSales
             THEN /\ Cardinality(PostingsOf(sales[i])) = 2
                  /\ \E j \in PostingsOf(sales[i]) :
                       /\ fin[j].debit_amount.v = sales[i].net_amount.v
                       /\ fin[j].credit_amount.v = 0
                       /\ OnAccount(fin[j], IsCashOrBank)
                  /\ \E j \in PostingsOf(sales[i]) :
                       /\ fin[j].credit_amount.v = sales[i].net_amount.v - sales[i].tax_amount.v
                       /\ fin[j].debit_amount.v = 0
                       /\ OnAccount(fin[j], IsSalesAccount)
             ELSE PostingsOf(sales[i]) = {}
        /\ Cardinality(ExpenseRows) = NumExpenses
        /\ \A j \in ExpenseRows : OnAccount(fin[j], IsExpensesAccount)
        /\ Len(fin) = 2 * Cardinality(PaidSales) + NumExpenses

\* A run with a paid sale of non-zero tax and a sale that is not paid.
C18_Witness ==
  /\ Returned
  /\ "fact_financial_transactions" \in DOMAIN datasets
  /\ \E i \in PaidSales : RowsOf("fact_sales_transactions")[i].tax_amount.v > 0
  /\ \E i \in 1..Len(RowsOf("fact_sales_transactions")) : i \notin PaidSales
  /\ ExpenseRows # {}

\* The inventory item an analytics row was computed for.
ItemsOf(row) ==
  {i \in 1..Len(RowsOf("dim_inventory_items")) :
     RowsOf("dim_inventory_items")[i].sku = row.sku}

\* The quantity issued of the item up to the date of the analytics row.
IssuedUpTo(row) ==
  -SumQuantity(SelectSeq(RowsOf("fact_inventory_transactions"),
                         LAMBDA t : /\ t.sku = row.sku
                                    /\ DateLeq(t.transaction_date.v, row.date.v)
                                    /\ t.transaction_type = Txt("Sales Issue")),
               "quantity")

\* C19: in every row of fact_inventory_analytics, days_inventory_outstanding
\* is 365 divided by the turnover rate (issues over current_stock) when that
\* rate is positive, and 365 when the rate is 0, items whose current_stock is
\* 0 included.  Amounts are in hundredths, days rounded to one decimal.
C19_DaysInventoryOutstanding ==
  \A j \in 1..Len(RowsOf("fact_inventory_analytics")) :
    LET row == RowsOf("fact_inventory_analytics")[j]
    IN  \A i \in ItemsOf(row) :
          LET stock == RowsOf("dim_inventory_items")[i].current_stock.v
              issued == IssuedUpTo(row)
          IN  IF stock > 0 /\ issued > 0
              THEN Abs(row.days_inventory_outstanding.v * issued - 36500 * stock)
                     <= 5 * issued
              ELSE row.days_inventory_outstanding.v = 36500

\* The analytics rows of one item for one month.
AnalyticsOf(item, month) ==
  {j \in 1..Len(RowsOf("fact_inventory_analytics")) :
     /\ RowsOf("fact_inventory_analytics")[j].sku = item.sku
     /\ RowsOf("fact_inventory_analytics")[j].date = CDate(2024, month, 15)}

\* C20: fact_inventory_analytics holds exactly one row for every pair of an
\* inventory item and a month 1..12, that is 12 rows per row of
\* dim_inventory_items, each dated the 15th of its month in 2024.
C20_RowPerItemAndMonth ==
  Returned =>
    /\ \A i \in 1..Len(RowsOf("dim_inventory_items")) :
         \A month \in 1..MonthsInYear :
           Cardinality(AnalyticsOf(RowsOf("dim_inventory_items")[i], month)) = 1
    /\ Len(RowsOf("fact_inventory_analytics"))
         = MonthsInYear * Len(RowsOf("dim_inventory_items"))

\* The Production Receipt rows of one batch.
ReceiptsOf(batch) ==
  {j \in 1..Len(RowsOf("fact_inventory_transactions")) :
     /\ RowsOf("fact_inventory_transactions")[j].transaction_type = Txt("Production Receipt")
     /\ RowsOf("fact_inventory_transactions")[j].batch_id = batch.batch_id}

\* The skus of the items named after the product of the batch's formulation.
SkusOfBatch(batch) ==
  {RowsOf("dim_inventory_items")[i].sku : i \in
     {i \in 1..Len(RowsOf("dim_inventory_items")) :
        \E f \in 1..Len(RowsOf("dim_formulations")) :
          /\ RowsOf("dim_formulations")[f].formulation_id = batch.formulation_id
          /\ RowsOf("dim_formulations")[f].product_name
               = RowsOf("dim_inventory_items")[i].item_name}}

\* C21: fact_inventory_transactions holds exactly one Production Receipt row
\* for every batch of status Completed and none for any other batch; the row
\* has the batch's id, the batch's actual_quantity as quantity, and the sku
\* of the inventory item named after the product of the batch's formulation.
C21_ReceiptPerCompletedBatch ==
  "fact_inventory_transactions" \in DOMAIN datasets =>
    LET txns == RowsOf("fact_inventory_transactions")
        batches == RowsOf("fact_production_batches")
    IN  /\ \A b \in 1..Len(batches) :
             IF batches[b].status = Txt("Completed")
             THEN /\ Cardinality(ReceiptsOf(batches[b])) = 1
                  /\ \A j \in ReceiptsOf(batches[b]) :
                       /\ txns[j].quantity.v = batches[b].actual_quantity.v
                       /\ SkusOfBatch(batches[b]) = {txns[j].sku}
             ELSE ReceiptsOf(batches[b]) = {}
        /\ \A j \in 1..Len(txns) :
             txns[j].transaction_type = Txt("Production Receipt") =>
               \E b \in 1..Len(batches) : j \in ReceiptsOf(batches[b])

\* A run with a completed batch of a formulation that is not the first, and
\* a batch that is not completed.
C21_Witness ==
  /\ Returned
  /\ \E b \in 1..Len(RowsOf("fact_production_batches")) :
       /\ RowsOf("fact_production_batches")[b].status = Txt("Completed")
       /\ RowsOf("fact_production_batches")[b].formulation_id
            # RowsOf("dim_formulations")[1].formulation_id
       /\ ReceiptsOf(RowsOf("fact_production_batches")[b]) # {}
  /\ \E b \in 1..Len(RowsOf("fact_production_batches")) :
       RowsOf("fact_production_batches")[b].status # Txt("Completed")

\* The items named after the product of one formulation.
ItemsNamed(formulation) ==
  {i \in 1..Len(RowsOf("dim_inventory_items")) :
     RowsOf("dim_inventory_items")[i].item_name = formulation.product_name}

\* The sum of actual_quantity over the batches of one formulation.
ProducedOf(formulation) ==
  SumQuantity(SelectSeq(RowsOf("fact_production_batches"),
                        LAMBDA b : b.formulation_id = formulation.formulation_id),
              "actual_quantity")

\* C22: dim_inventory_items has exactly one row per row of dim_formulations,
\* Active or Archived, with or without batches; current_stock of each item is
\* an integer, at least 0 and at most 70% of the sum of actual_quantity over
\* the batches of its formulation, hence 0 for a formulation with no batch.
C22_ItemPerFormulation ==
  "dim_inventory_items" \in DOMAIN datasets =>
    /\ Len(RowsOf("dim_inventory_items")) = Len(RowsOf("dim_formulations"))
    /\ \A f \in 1..Len(RowsOf("dim_formulations")) :
         LET formulation == RowsOf("dim_formulations")[f]
         IN  /\ Cardinality(ItemsNamed(formulation)) = 1
             /\ \A i \in ItemsNamed(formulation) :
                  LET stock == RowsOf("dim_inventory_items")[i].current_stock
                  IN  /\ stock.k = "int"
                      /\ stock.v >= 0
                      /\ 100 * stock.v <= 70 * ProducedOf(formulation)

\* A run with an Archived formulation that has no batch and an item in stock.
C22_Witness ==
  /\ Returned
  /\ \E f \in 1..Len(RowsOf("dim_formulations")) :
       /\ RowsOf("dim_formulations")[f].status = Txt("Archived")
       /\ ProducedOf(RowsOf("dim_formulations")[f]) = 0
       /\ \E i \in ItemsNamed(RowsOf("dim_formulations")[f]) :
            RowsOf("dim_inventory_items")[i].current_stock.v = 0
  /\ \E i \in 1..Len(RowsOf("dim_inventory_items")) :
       RowsOf("dim_inventory_items")[i].current_stock.v > 0

\* The Sales Issue rows of one sku.
IssuesOf(sku) ==
  {j \in 1..Len(RowsOf("fact_inventory_transactions")) :
     /\ RowsOf("fact_inventory_transactions")[j].transaction_type = Txt("Sales Issue")
     /\ RowsOf("fact_inventory_transactions")[j].sku = sku}

\* C23: every inventory item with current_stock > 0 has at least 1 and at
\* most the fixed maximum of Sales Issue rows; every Sales Issue row has a
\* negative quantity q with 1 <= -q <= min(100, current_stock of its item);
\* Production Receipt and Stock Transfer rows have a positive quantity.
C23_IssueQuantitiesBounded ==
  "fact_inventory_transactions" \in DOMAIN datasets =>
    LET txns == RowsOf("fact_inventory_transactions")
        items == RowsOf("dim_inventory_items")
    IN  /\ \A i \in 1..Len(items) :
             items[i].current_stock.v > 0 =>
               Cardinality(IssuesOf(items[i].sku)) \in 1..MaxIssuesPerItem
        /\ \A j \in 1..Len(txns) :
             IF txns[j].transaction_type = Txt("Sales Issue")
             THEN /\ txns[j].quantity.v < 0
                  /\ \E i \in 1..Len(items) : items[i].sku = txns[j].sku
                  /\ \A i \in 1..Len(items) :
                       items[i].sku = txns[j].sku =>
                         /\ 1 <= -txns[j].quantity.v
                         /\ -txns[j].quantity.v <= 100
                         /\ -txns[j].quantity.v <= items[i].current_stock.v
             ELSE txns[j].quantity.v > 0

\* An item with fewer than 100 in stock that has the maximum of issues, next
\* to a receipt and a transfer.
C23_Witness ==
  /\ Returned
  /\ \E i \in 1..Len(RowsOf("dim_inventory_items")) :
       /\ RowsOf("dim_inventory_items")[i].current_stock.v \in 1..99
       /\ Cardinality(IssuesOf(RowsOf("dim_inventory_items")[i].sku)) = MaxIssuesPerItem
  /\ \E j \in 1..Len(RowsOf("fact_inventory_transactions")) :
       RowsOf("fact_inventory_transactions")[j].transaction_type = Txt("Production Receipt")
  /\ \E j \in 1..Len(RowsOf("fact_inventory_transactions")) :
       RowsOf("fact_inventory_transactions")[j].transaction_type = Txt("Stock Transfer")

\* C24: every row of fact_production_batches has the formulation_id of a
\* formulation whose status is Active, never of an Archived one, and the
\* supervisor_id of an employee of the Production department.
C24_BatchesOfActiveFormulations ==
  \A b \in 1..Len(RowsOf("fact_production_batches")) :
    LET batch == RowsOf("fact_production_batches")[b]
    IN  /\ \E f \in 1..Len(RowsOf("dim_formulations")) :
             RowsOf("dim_formulations")[f].formulation_id = batch.formulation_id
        /\ \A f \in 1..Len(RowsOf("dim_formulations")) :
             RowsOf("dim_formulations")[f].formulation_id = batch.formulation_id
               => RowsOf("dim_formulations")[f].status = Txt("Active")
        /\ \E e \in 1..Len(RowsOf("dim_employees")) :
             RowsOf("dim_employees")[e].employee_id = batch.supervisor_id
        /\ \A e \in 1..Len(RowsOf("dim_employees")) :
             RowsOf("dim_employees")[e].employee_id = batch.supervisor_id
               => RowsOf("dim_employees")[e].department = Txt("Production")

\* Batches produced in a run that has an Archived formulation and an
\* employee outside Production.
C24_Witness ==
  /\ Returned
  /\ Len(RowsOf("fact_production_batches")) = NumBatches
  /\ \E f \in 1..Len(RowsOf("dim_formulations")) :
       RowsOf("dim_formulations")[f].status = Txt("Archived")
  /\ \E e \in 1..Len(RowsOf("dim_employees")) :
       RowsOf("dim_employees")[e].department # Txt("Production")

\* The shift_pattern values of the employee an attendance row belongs to.
PatternsOf(row) ==
  {RowsOf("dim_employees")[e].shift_pattern : e \in
     {e \in 1..Len(RowsOf("dim_employees")) :
        RowsOf("dim_employees")[e].employee_id = row.employee_id}}

\* The minutes after midnight of a time cell, or of the text astype(str)
\* makes of it.
MinutesOf(c) ==
  IF c.k = "time" THEN c.v[1] * 60 + c.v[2] ELSE c.v[2][1] * 60 + c.v[2][2]

\* shift_end - shift_start of a row, in minutes.
ShiftMinutes(row) == MinutesOf(row.shift_end) - MinutesOf(row.shift_start)

\* C25: in every row of fact_attendance overtime_hours is 0 and hours_worked
\* is at least 7.5 and at most 9; the scheduled shift is 9 hours long, and
\* patterns other than Morning and Evening get the 08:00-17:00 shift.
C25_NoOvertime ==
  \A a \in 1..Len(RowsOf("fact_attendance")) :
    LET row == RowsOf("fact_attendance")[a]
    IN  /\ row.overtime_hours.v = 0
        /\ row.hours_worked.v >= 750
        /\ row.hours_worked.v <= 900
        /\ ShiftMinutes(row) = 540
        /\ (PatternsOf(row) \cap {Txt("Morning"), Txt("Evening")} = {})
             => (MinutesOf(row.shift_start) = 480 /\ MinutesOf(row.shift_end) = 1020)

\* Attendance with a shortened day, a full day, and a day of an employee
\* whose pattern is neither Morning nor Evening.
C25_Witness ==
  /\ Returned
  /\ \E a \in 1..Len(RowsOf("fact_attendance")) :
       RowsOf("fact_attendance")[a].hours_worked.v < 900
  /\ \E a \in 1..Len(RowsOf("fact_attendance")) :
       RowsOf("fact_attendance")[a].hours_worked.v = 900
  /\ \E a \in 1..Len(RowsOf("fact_attendance")) :
       /\ PatternsOf(RowsOf("fact_attendance")[a]) # {}
       /\ PatternsOf(RowsOf("fact_attendance")[a]) \cap {Txt("Morning"), Txt("Evening")} = {}

\* C26: in every row of fact_production_batches yield_percentage is at most
\* 100, and in every row of fact_production_analytics scrap_percentage lies
\* between 0 and 100.  Percentages are in hundredths.
C26_YieldAtMostHundred ==
  /\ \A b \in 1..Len(RowsOf("fact_production_batches")) :
       RowsOf("fact_production_batches")[b].yield_percentage.v <= 10000
  /\ \A a \in 1..Len(RowsOf("fact_production_analytics")) :
       /\ RowsOf("fact_production_analytics")[a].scrap_percentage.v >= 0
       /\ RowsOf("fact_production_analytics")[a].scrap_percentage.v <= 10000

\* C27: every report validate_table returns, for known and unknown table
\* names alike, has a row_count entry equal to the number of rows of the
\* table given.
C27_ReportHasRowCount ==
  Len(vcalls) >= 1 =>
    /\ "row_count" \in DOMAIN FirstCall.report
    /\ FirstCall.report.row_count = Len(vin.rows)

\* Column col of the table, row by row.
Cells(df, col) == [i \in 1..Len(df.rows) |-> df.rows[i][col]]

\* C28: validate_table works on the table it was given and returns it: after
\* a call, also one that reports a type-conversion error (ok = FALSE), every
\* present required column whose conversion succeeded holds the converted
\* values and every column whose conversion failed is as it was; the number
\* of rows and the set of columns, extra columns included, are unchanged.
C28_CoercionSurvivesFailure ==
  Len(vcalls) >= 1 =>
    /\ Len(FirstCall.df.rows) = Len(vin.rows)
    /\ FirstCall.df.cols = vin.cols
    /\ \A i \in 1..Len(vin.rows) : DOMAIN FirstCall.df.rows[i] = DOMAIN vin.rows[i]
    /\ IsKnownTable(vname) =>
         /\ \A e \in 1..Len(SCHEMAS[vname]) :
              LET col == SCHEMAS[vname][e].col
                  type == SCHEMAS[vname][e].type
              IN  col \in vin.cols =>
                    IF ColumnFails(vin, col, type)
                    THEN Cells(FirstCall.df, col) = Cells(vin, col)
                    ELSE Cells(FirstCall.df, col)
                           = [i \in 1..Len(vin.rows) |-> CoerceCell(type, vin.rows[i][col])]
         /\ \A col \in vin.cols \ RequiredCols(vname) :
              Cells(FirstCall.df, col) = Cells(vin, col)

\* A call that reports a conversion error for one column and has changed
\* another column of a table that also has an extra column.
C28_Witness ==
  /\ Len(vcalls) >= 1
  /\ IsKnownTable(vname)
  /\ ~FirstCall.report.ok
  /\ \E i \in 1..Len(FirstCall.report.errors) :
       FirstCall.report.errors[i][1] = "Type conversion failed"
  /\ "extra" \in vin.cols
  /\ \E col \in vin.cols \cap RequiredCols(vname) :
       Cells(FirstCall.df, col) # Cells(vin, col)

\* C29: after any sequence of Generate, Upload-and-Save, Clear and Reset,
\* every key of the session store is one of the 17 table names of SCHEMAS,
\* and right after a Generate that succeeded the keys of the store are
\* exactly those 17 names.
C29_StoreKeysAreTableNames ==
  /\ DOMAIN store \subseteq TableNames
  /\ outcome = "generated" => (DOMAIN store = TableNames /\ Cardinality(DOMAIN store) = 17)

\* The store right after a Generate that followed an earlier run and an
\* upload.
C29_Witness ==
  /\ outcome = "generated"
  /\ pc = 0
  /\ Cardinality(DOMAIN store) = 17
  /\ prevRun # NoRun
  /\ uploaded.present

\* The quantity all Sales Issue rows of one sku take out.
TotalIssued(sku) ==
  -SumQuantity(SelectSeq(RowsOf("fact_inventory_transactions"),
                         LAMBDA t : t.sku = sku /\ t.transaction_type = Txt("Sales Issue")),
               "quantity")

\* C30: for every inventory item, the total quantity of its Sales Issue rows
\* (the sum of -quantity over them) does not exceed its current_stock.
C30_IssuesWithinStock ==
  \A i \in 1..Len(RowsOf("dim_inventory_items")) :
    TotalIssued(RowsOf("dim_inventory_items")[i].sku)
      <= RowsOf("dim_inventory_items")[i].current_stock.v

=============================================================================
